---- MODULE Spec2Model ----
(***************************************************************************)
(* Verification model of the ecommerce repository: the finite state        *)
(* machine field (fsm/fsm.py), the shopping cart with its modifier         *)
(* pipeline (shop/models/cart.py, shop/modifiers.py, shop/modifier.py,     *)
(* shop/support.py) and the cart -> order conversion                        *)
(* (shop/models/order.py).                                                  *)
(***************************************************************************)
EXTENDS Integers, Sequences, FiniteSets, TLC

VARIABLES
    transitions,   \* FSMMeta.transitions of the decorated method: source -> Transition
    state,         \* instance.__dict__[field.name], the value of the state field
    in_dict,       \* field.name in instance.__dict__
    fsm_call,      \* the last operation on the state field and what reached its caller
    items,         \* the rows of CartItem: [id, cart, product, quantity]
    next_id,       \* the primary key the next CartItem row gets
    carts,         \* the primary keys of the Cart rows
    stock,         \* Product.quantity of every product
    cart_obj,      \* the Cart object the caller holds for RequestCart
    order_items,   \* the rows of OrderItem of the order
    order_amounts, \* Order._subtotal and Order._total of the order
    shop_call,     \* the last cart or order operation and what reached its caller
    customer_number, \* Customer.number of the cart's customer, as persisted
    orders,        \* the rows of Order: [number, status, subtotal, total, created_at]
    now,           \* timezone.now(): [year, tick], tick 0 the first instant of the year
    num_call,      \* the last call that assigns or reads an order number
    payments,      \* Sum('amount') over the OrderPayment rows of the order
    amount_paid,   \* the order object's cached amount_paid, NoAmount before the first read
    store_config,  \* Store.get_cart_modifiers(): the identifiers of the configured modifiers
    pool_cache,    \* MODIFIERS_CACHE[store.domain] of shop.modifier's pool
    pool_call,     \* the last call on a modifier pool and what reached its caller
    order_class,   \* the last call of Order.__new__ and what it left
    store_saving,  \* a Store.save() between its pre_save signal and its UPDATE
    other_cache,   \* MODIFIERS_CACHE[other.domain], the entry of another store
    drafts,        \* the orders being created by concurrent requests
    conversions    \* the cart lines being converted by concurrent requests

fsm_vars == <<transitions, state, in_dict, fsm_call>>

shop_vars == <<items, next_id, carts, stock, cart_obj, order_items, order_amounts, shop_call>>

pool_vars == <<store_config, pool_cache, pool_call, order_class, store_saving, other_cache,
              drafts, conversions>>

order_vars == <<customer_number, orders, now, num_call, payments, amount_paid, pool_vars>>

vars == <<transitions, state, in_dict, fsm_call,
          items, next_id, carts, stock, cart_obj, order_items, order_amounts, shop_call,
          customer_number, orders, now, num_call, payments, amount_paid,
          store_config, pool_cache, pool_call, order_class, store_saving, other_cache,
          drafts, conversions>>

-----------------------------------------------------------------------------
(* Finite state machine: fsm/fsm.py                                        *)

\* Python's None
None == "None"

\* the values a state field takes
States == {"new", "created", "failed"}

\* the keys of FSMMeta.transitions: a concrete state or a wildcard
Sources == States \cup {"*", "+"}

\* the marker of a computed target, an instance of RETURN_VALUE
RETURN_VALUE == "RETURN_VALUE"

\* RETURN_VALUE.allowed_states
allowed_states == {"created", "failed"}

\* the guard predicates a rule may name in conditions
Guards == {"g1"}

\* what the business method may return
Results == States \cup {"bogus"}

\* the exceptions the business method may raise
BusinessErrors == {"ValueError"}

\* the largest number of rules registered on the method
MaxRules == 2

\* class Transition: the fields change_state reads
Transition == [target : {"created", None, RETURN_VALUE},
               on_error : {None, "failed"},
               conditions : SUBSET Guards]

\* the absent Transition (get_transition returning None)
NoTransition == [target |-> "<no transition>", on_error |-> None, conditions |-> {}]

\* the rule tables add_transition can build: one Transition per source
Tables == UNION {[S -> Transition] : S \in {X \in SUBSET Sources : Cardinality(X) <= MaxRules}}

get_transition_unchanged_first(meta, source) ==
    IF source \in DOMAIN meta THEN meta[source]
    ELSE IF "+" \in DOMAIN meta THEN meta["+"]
    ELSE IF "*" \in DOMAIN meta THEN meta["*"]
    ELSE NoTransition

get_transition(meta, source) ==
    IF source \in DOMAIN meta THEN meta[source]
    ELSE IF "*" \in DOMAIN meta THEN meta["*"]
    ELSE IF "+" \in DOMAIN meta THEN meta["+"]
    ELSE NoTransition

has_transition_eq(meta, st) ==
    \/ st \in DOMAIN meta
    \/ "*" \in DOMAIN meta
    \/ "+" \in DOMAIN meta /\ meta["+"].target = st

has_transition(meta, st) ==
    \/ st \in DOMAIN meta
    \/ "*" \in DOMAIN meta
    \/ "+" \in DOMAIN meta /\ meta["+"].target # st

conditions_met_always(meta, guard_values, st) == TRUE

conditions_met(meta, guard_values, st) ==
    LET transition == get_transition(meta, st)
    IN  IF transition = NoTransition THEN FALSE
        ELSE \A condition \in transition.conditions : guard_values[condition]

next_state(meta, current_state) == get_transition(meta, current_state).target

exception_state_none(meta, current_state) == None

exception_state(meta, current_state) == get_transition(meta, current_state).on_error

\* FSMFieldDescriptor.__set__ refuses the assignment
set_refused_never(protected, named_in_dict) == FALSE

set_refused(protected, named_in_dict) == protected /\ named_in_dict

\* Order.status is declared protected
status_protected == TRUE

RETURN_VALUE_get_state_any(result) == [exc |-> None, value |-> result]

\* RETURN_VALUE.get_state: the result, or InvalidResultState
RETURN_VALUE_get_state(result) ==
    IF result \notin allowed_states THEN [exc |-> "InvalidResultState", value |-> None]
    ELSE [exc |-> None, value |-> result]

\* a notification sent on pre_transition or post_transition
Signal(name, source, target, exception) ==
    [signal |-> name, source |-> source, target |-> target, exception |-> exception]

\* the try block of change_state: the business method, then the new state
\* outcome: None when the method returns, else the exception it raises
TryBlock(target, outcome, result) ==
    IF outcome # None THEN [exc |-> outcome, assign |-> None]
    ELSE IF target = None THEN [exc |-> None, assign |-> None]
    ELSE IF target = RETURN_VALUE
         THEN LET r == RETURN_VALUE_get_state(result)
              IN  [exc |-> r.exc, assign |-> r.value]
         ELSE [exc |-> None, assign |-> target]

-----------------------------------------------------------------------------
(* Cart, cart items, products and the modifier pools                       *)

\* the products of the catalogue
Products == {"A", "B"}

\* Product.unit_price, in cents
unit_price == [p \in Products |-> IF p = "A" THEN 1000 ELSE 500]

\* settings.MAX_PURCHASE_QUANTITY
MAX_PURCHASE_QUANTITY == 50

\* settings.DEFAULT_TAX_RATE
DEFAULT_TAX_RATE == 13

\* the cart of the request's customer, and the anonymous cart merged into it
RequestCart == 1
OtherCart == 2

\* the largest quantity a call is given and a cart line is let to reach
MaxQuantity == 2

\* the largest primary key a CartItem row gets
MaxItemId == 3

\* the stock levels products start with
LowStock == 1
AmpleStock == 4

\* no CartItem (None, or an empty queryset's first())
NoRow == [id |-> 0, cart |-> 0, product |-> None, quantity |-> 0]

\* QuerySet.first(): the row with the lowest primary key
first(rows) ==
    IF rows = {} THEN NoRow
    ELSE CHOOSE r \in rows : \A o \in rows : r.id <= o.id

\* Sum('quantity') over rows, Coalesce'd to 0
RECURSIVE sum_quantity(_)
sum_quantity(rows) ==
    IF rows = {} THEN 0
    ELSE LET r == first(rows) IN r.quantity + sum_quantity(rows \ {r})

\* Product.is_in_cart: the argument watched is not used
is_in_cart(rows, cart, product, watched) ==
    first({r \in rows : r.cart = cart /\ r.product = product})

\* Availability.__init__ caps the quantity; Product.get_availability takes off
\* the quantities of the product held in every cart
get_availability(rows, stk, product) ==
    (IF stk[product] < MAX_PURCHASE_QUANTITY THEN stk[product] ELSE MAX_PURCHASE_QUANTITY)
    - sum_quantity({r \in rows : r.product = product})

\* an argument left out of a call
Missing == "<missing>"

\* the identifiers of the modifiers a store configures, in pipeline order
store_cart_modifiers == <<"default", "taxes">>

\* shop.modifier.CartModifiersPool.get_all_modifiers(self, store)
modifier_get_all_modifiers(store) ==
    IF store = Missing THEN [exc |-> "TypeError", modifiers |-> <<>>]
    ELSE [exc |-> None, modifiers |-> store_cart_modifiers]

\* shop.support.CartModifiersPool.get_all_modifiers(self, request=None, store=None):
\* MODIFIERS_CACHE is never filled, the first subscript of a store's entry fails
support_get_all_modifiers(request, store) ==
    IF store = Missing /\ request = Missing
    THEN [exc |-> "ImproperlyConfigured", modifiers |-> <<>>]
    ELSE [exc |-> "KeyError", modifiers |-> <<>>]

\* CartItemManager.filter_cart_items: the lines with quantity > 0, arranged by
\* every modifier of shop.modifier's pool, called without a store
filter_cart_items(rows, cart) ==
    LET pool == modifier_get_all_modifiers(Missing)
    IN  IF pool.exc # None THEN [exc |-> pool.exc, ids |-> {}]
        ELSE [exc |-> None, ids |-> {r.id : r \in {x \in rows : x.cart = cart /\ x.quantity > 0}}]

\* DefaultCartModifier.pre_process_cart_item on a freshly loaded item
pre_process_cart_item(rows, stk, item, raise_exception) ==
    LET availability == get_availability(rows, stk, item.product)
    IN  IF item.quantity > availability
        THEN IF raise_exception
             THEN [exc |-> "ProductNotAvailable", rows |-> rows, messages |-> 0]
             ELSE IF availability < 0
             \* PositiveIntegerField: the CHECK (quantity >= 0) refuses the UPDATE
             THEN [exc |-> "IntegrityError", rows |-> rows, messages |-> 0]
             ELSE [exc |-> None, messages |-> 1,
                   rows |-> (rows \ {item}) \cup {[item EXCEPT !.quantity = availability]}]
        ELSE [exc |-> None, rows |-> rows, messages |-> 0]

\* the pre-phase of Cart.update over the items ids, in order
RECURSIVE pre_phase(_, _, _, _)
pre_phase(ids, rows, stk, raise_exception) ==
    IF ids = {} THEN [exc |-> None, rows |-> rows, messages |-> 0]
    ELSE LET item == first({r \in rows : r.id \in ids})
             r == pre_process_cart_item(rows, stk, item, raise_exception)
         IN  IF r.exc # None THEN r
             ELSE pre_phase(ids \ {item.id}, r.rows, stk, raise_exception)

\* DefaultCartModifier.process_cart_item: line_total = unit_price * quantity
line_total(row) == unit_price[row.product] * row.quantity

RECURSIVE sum_line_total(_)
sum_line_total(rows) ==
    IF rows = {} THEN 0
    ELSE LET r == first(rows) IN line_total(r) + sum_line_total(rows \ {r})

\* CartIncludeTaxModifier.add_extra_cart_row: amount = subtotal * taxes
tax_amount(subtotal) == (subtotal * DEFAULT_TAX_RATE) \div 100

\* Cart.__init__: no totals, nothing cached, dirty
NewCart == [dirty |-> TRUE, cached |-> {}, has_totals |-> FALSE,
            subtotal |-> 0, total |-> 0, extra_rows |-> <<>>]

\* the hooks one pass over n items and m modifiers invokes
hook_count(m, n) == m * (3 + 3 * n)

\* Cart.update from line 96 on, with the modifiers resolved
pipeline(cart, rows, stk, ids, modifiers, raise_exception) ==
    LET pre == IF \E i \in DOMAIN modifiers : modifiers[i] = "default"
               THEN pre_phase(ids, rows, stk, raise_exception)
               ELSE [exc |-> None, rows |-> rows, messages |-> 0]
        active == {r \in pre.rows : r.id \in ids}
        subtotal == sum_line_total(active)
        taxed == \E i \in DOMAIN modifiers : modifiers[i] = "taxes"
        amount == tax_amount(subtotal)
    IN  IF pre.exc # None THEN [exc |-> pre.exc, rows |-> pre.rows, cart |-> cart]
        ELSE [exc |-> None, rows |-> pre.rows,
              cart |-> [dirty |-> FALSE, cached |-> ids, has_totals |-> TRUE,
                        subtotal |-> subtotal,
                        total |-> IF taxed THEN subtotal + amount ELSE subtotal,
                        extra_rows |-> IF taxed
                                       THEN <<[identifier |-> "taxes", amount |-> amount]>>
                                       ELSE <<>>]]

\* one invocation of a modifier hook (item 0: a hook of the cart), or a step
\* of the cart itself (modifier "cart")
Hook(hook, modifier, item) == [hook |-> hook, modifier |-> modifier, item |-> item]

\* the items of a pass, in the order the loops visit them
RECURSIVE in_order(_)
in_order(ids) ==
    IF ids = {} THEN <<>>
    ELSE LET i == CHOOSE x \in ids : \A y \in ids : x <= y
         IN  <<i>> \o in_order(ids \ {i})

RECURSIVE concat(_)
concat(seqs) == IF seqs = <<>> THEN <<>> ELSE Head(seqs) \o concat(Tail(seqs))

\* the hooks a complete pass of Cart.update invokes, lines 99-122, with
\* CartItem.update's loop over the modifiers for each item
hook_trace(modifiers, ids) ==
    LET its == in_order(ids)
        M == Len(modifiers)
        K == Len(its)
        each(hook, j) == [k \in 1..K |-> Hook(hook, modifiers[j], its[k])]
        pre == concat([j \in 1..M |->
                   <<Hook("pre_process_cart", modifiers[j], 0)>>
                   \o each("pre_process_cart_item", j)])
        reset == <<Hook("reset", "cart", 0)>>
        items_pass == concat([k \in 1..K |->
                   [j \in 1..M |-> Hook("process_cart_item", modifiers[j], its[k])]
                   \o <<Hook("add_line_total", "cart", its[k])>>])
        forward == concat([j \in 1..M |->
                   each("post_process_cart_item", j)
                   \o <<Hook("process_cart", modifiers[j], 0)>>])
        final == [j \in 1..M |-> Hook("post_process_cart", modifiers[M + 1 - j], 0)]
    IN  pre \o reset \o items_pass \o forward \o final

\* Cart.update: what it raises and what it leaves
Cart_update_result(cart, rows, stk, raise_exception) ==
    IF ~cart.dirty
    THEN [exc |-> None, rows |-> rows, cart |-> cart, hooks |-> 0, trace |-> <<>>]
    ELSE LET found == IF cart.cached # {} THEN [exc |-> None, ids |-> cart.cached]
                      ELSE filter_cart_items(rows, RequestCart)
             pool == support_get_all_modifiers(Missing, Missing)
         IN  IF found.exc # None
             THEN [exc |-> found.exc, rows |-> rows, cart |-> cart, hooks |-> 0,
                   trace |-> <<>>]
             ELSE IF pool.exc # None
             THEN [exc |-> pool.exc, rows |-> rows, cart |-> cart, hooks |-> 0,
                   trace |-> <<>>]
             ELSE LET r == pipeline(cart, rows, stk, found.ids, pool.modifiers,
                                    raise_exception)
                  IN  [exc |-> r.exc, rows |-> r.rows, cart |-> r.cart,
                       hooks |-> hook_count(Len(pool.modifiers), Cardinality(found.ids)),
                       trace |-> hook_trace(pool.modifiers, found.ids)]

\* CartItem.update of a freshly loaded (dirty) item: refresh_from_db, then the
\* modifiers of shop.support's pool, called without request and store
CartItem_update_exc == support_get_all_modifiers(Missing, Missing).exc

\* the rule table of Order.populate_from_cart: source 'new', target 'created'
populate_meta_any == [s \in {"*"} |-> [target |-> "created", on_error |-> None, conditions |-> {}]]

populate_meta == [s \in {"new"} |-> [target |-> "created", on_error |-> None, conditions |-> {}]]

\* OrderItem.populate_from_cart_item and Product.deduct_from_stock, for the
\* lines ids of the cart in order, each after cart_item.update(request)
RECURSIVE populate_items(_, _, _, _)
populate_items(ids, rows, stk, made) ==
    IF ids = {} THEN [exc |-> None, rows |-> rows, stock |-> stk, order_items |-> made]
    ELSE LET cart_item == first({r \in rows : r.id \in ids})
             rest == ids \ {cart_item.id}
         IN  IF CartItem_update_exc # None
             THEN [exc |-> CartItem_update_exc, rows |-> rows, stock |-> stk,
                   order_items |-> made]
             ELSE IF cart_item.quantity = 0
             \* CartItem.DoesNotExist is caught: the line stays on the watch list
             THEN populate_items(rest, rows, stk, made)
             ELSE IF cart_item.quantity > stk[cart_item.product]
             THEN [exc |-> "ProductNotAvailable", rows |-> rows, stock |-> stk,
                   order_items |-> made]
             ELSE populate_items(rest, rows \ {cart_item},
                      [stk EXCEPT ![cart_item.product] = @ - cart_item.quantity],
                      made \cup {[product |-> cart_item.product,
                                  quantity |-> cart_item.quantity,
                                  unit_price |-> unit_price[cart_item.product],
                                  line_total |-> line_total(cart_item)]})

\* the body of Order.populate_from_cart: what it raises, and what it has
\* written when it returns
populate_body(cart, rows, stk) ==
    IF ~cart.has_totals
    THEN [exc |-> "AssertionError", rows |-> rows, stock |-> stk, order_items |-> {}]
    ELSE populate_items({r.id : r \in {x \in rows : x.cart = RequestCart}}, rows, stk, {})

-----------------------------------------------------------------------------
(* The per-store cache of shop.modifier's pool                             *)

\* a modifier class that declares no identifier
NoIdentifier == "<no identifier>"

\* MODIFIERS_CACHE holds no entry for the store's domain
NoCache == [primed |-> FALSE, modifiers |-> <<>>]

\* the check of get_all_modifiers: every modifier has an identifier, none twice
unique_identifiers(modifiers) ==
    /\ \A i \in DOMAIN modifiers : modifiers[i] # NoIdentifier
    /\ \A i, j \in DOMAIN modifiers : modifiers[i] = modifiers[j] => i = j

\* BaseCartModifier.__init__: a modifier class without an identifier fails its
\* assertion when the pool instantiates it, unless the interpreter runs with
\* assertions stripped
instantiable(config) == \A i \in DOMAIN config : config[i] # NoIdentifier

\* shop.modifier.CartModifiersPool.get_all_modifiers(store): the instances are
\* stored under the store's domain before their identifiers are checked
pool_get_all_modifiers(cache, config, asserts) ==
    IF cache.primed
    THEN [exc |-> None, modifiers |-> cache.modifiers, cache |-> cache]
    ELSE IF asserts /\ ~instantiable(config)
    THEN [exc |-> "AssertionError", modifiers |-> <<>>, cache |-> cache]
    ELSE LET entry == [primed |-> TRUE, modifiers |-> config]
         IN  IF unique_identifiers(config)
             THEN [exc |-> None, modifiers |-> config, cache |-> entry]
             ELSE [exc |-> "ImproperlyConfigured", modifiers |-> <<>>, cache |-> entry]

NoPoolCall == [op |-> "none", exc |-> None, modifiers |-> <<>>, cached |-> FALSE]

\* no Store.save() is under way
NotSaving == [active |-> FALSE, config |-> <<>>]

-----------------------------------------------------------------------------
(* Customer and order numbers                                              *)

\* number = None: the field holds no number (numbers are positive)
NoNumber == 0

\* the calendar year the clock starts in
FirstYear == 2026

\* str(n) of an integer n >= 0: its decimal digits, most significant first
RECURSIVE str(_)
str(n) == IF n < 10 THEN <<n>> ELSE Append(str(n \div 10), n % 10)

\* int(s) of a non-empty string of decimal digits
RECURSIVE int(_)
int(digits) ==
    IF digits = <<>> THEN 0
    ELSE int(SubSeq(digits, 1, Len(digits) - 1)) * 10 + digits[Len(digits)]

\* s[4:]
from_4(s) == SubSeq(s, 5, Len(s))

\* s[:4]
up_to_4(s) == SubSeq(s, 1, IF Len(s) < 4 THEN Len(s) ELSE 4)

pad_05d_unpadded(digits) == digits

\* '{:05d}'.format(n): at least five digits, padded with zeros on the left
RECURSIVE pad_05d(_)
pad_05d(digits) == IF Len(digits) >= 5 THEN digits ELSE pad_05d(<<0>> \o digits)

\* Max('number') of an aggregate: None over no rows
max_number(numbers) ==
    IF numbers = {} THEN NoNumber
    ELSE CHOOSE n \in numbers : \A m \in numbers : m <= n

\* Customer.get_or_assign_number: the customer's number after the call
Customer_get_or_assign_number(number, persisted) ==
    IF number # NoNumber THEN number
    ELSE LET number__max == max_number(persisted)
         IN  (IF number__max = NoNumber THEN 0 ELSE number__max) + 1

\* created_at__gt = epoch, epoch the first instant of the year of the clock
created_after_epoch(created_at, clock) ==
    \/ created_at.year > clock.year
    \/ created_at.year = clock.year /\ created_at.tick > 0

\* Order.get_or_assign_number: the order's number after the call
Order_get_or_assign_number(number, rows, clock) ==
    IF number # NoNumber THEN number
    ELSE LET number__max ==
                 max_number({o.number : o \in {r \in rows :
                     r.number # NoNumber /\ created_after_epoch(r.created_at, clock)}})
             \* str(None)[4:] is '', and int('') raises ValueError
             tail == IF number__max = NoNumber THEN <<>> ELSE from_4(str(number__max))
         IN  IF tail = <<>>
             THEN int(str(clock.year) \o <<0, 0, 0, 0, 1>>)
             ELSE int(str(clock.year) \o pad_05d(str(int(tail) + 1)))

\* the character '-' next to the digits 0..9 of a string
Dash == 10

\* Order.get_number: number[:4] + '-' + number[4:] of str(self.number)
get_number(number) == up_to_4(str(number)) \o <<Dash>> \o from_4(str(number))

join_split_whole(s) == s

\* ''.join(number.split('-')): the string without its dashes
RECURSIVE join_split(_)
join_split(s) ==
    IF s = <<>> THEN <<>>
    ELSE IF Head(s) = Dash THEN join_split(Tail(s))
    ELSE <<Head(s)>> \o join_split(Tail(s))

\* Order.resolve_number: the value of the lookup dict(number=...)
resolve_number(number) == join_split(number)

\* IntegerField.get_prep_value of the lookup value: int(value)
get_prep_value(value) == int(value)

\* the last year and the last tick of a year the clock reaches
LastYear == 2027
MaxTick == 2

\* the clock one instant later
next_instant(clock) ==
    IF clock.tick < MaxTick THEN [clock EXCEPT !.tick = @ + 1]
    ELSE [year |-> clock.year + 1, tick |-> 0]

NoNumCall == [op |-> "none", exc |-> None, number |-> NoNumber, number_before |-> NoNumber,
              year |-> 0, orders_before |-> {}, slug |-> <<>>, lookup |-> <<>>]

\* amount_paid is not in the order object's __dict__
NoAmount == -1

\* cached_property amount_paid: the value read, which is kept by the object
read_amount_paid(cached, paid) == IF cached # NoAmount THEN cached ELSE paid

\* Order.is_fully_paid
is_fully_paid(cached, paid, total) == read_amount_paid(cached, paid) >= total

\* the rule table of Order.acknowledge_payment
acknowledge_meta ==
    [s \in {"*"} |-> [target |-> "payment_confirmed", on_error |-> None,
                      conditions |-> Guards]]

number_unique_off(rows, number) == TRUE

\* unique=True of Order.number: the INSERT is accepted when no row has the number
number_unique(rows, number) == \A o \in rows : o.number # number

\* the requests that create orders side by side
Procs == {1, 2}

\* no request is creating an order, none has persisted one
NoDrafts == [pc |-> [p \in Procs |-> "idle"], number |-> [p \in Procs |-> NoNumber],
             persisted |-> <<>>]

\* no request is converting a cart line, no order item was created
NoConversions == [pc |-> [p \in Procs |-> "idle"], quantity |-> [p \in Procs |-> 0],
                  loaded |-> [p \in Procs |-> 0], initial |-> 0]

\* Order(**kwargs): the call reaches Order.__new__(cls, name, bases, attrs)
Order_construct_exc == "TypeError"

\* -- the order's transition targets and its workflow extensions --

\* Order.TRANSITION_TARGETS: the target names the Order class declares itself
Order_TRANSITION_TARGETS == {"new", "created", "payment_confirmed", "payment_declined"}

\* the loop of Order.__new__ over reversed(bases), bases given as the sequence
\* of the TRANSITION_TARGETS of each base; the targets of attrs are not read
RECURSIVE merge_targets(_, _)
merge_targets(bases, merged) ==
    IF bases = <<>> THEN [exc |-> None, targets |-> merged]
    ELSE LET TRANSITION_TARGETS == bases[Len(bases)]
         IN  IF TRANSITION_TARGETS \cap merged # {}
             THEN [exc |-> "ImproperlyConfigured", targets |-> {}]
             ELSE merge_targets(SubSeq(bases, 1, Len(bases) - 1),
                                merged \cup TRANSITION_TARGETS)

\* Order.__new__(cls, name, bases, attrs). Order is a models.Model subclass:
\* Order(**kwargs) does not fit the signature; given (name, bases, attrs) it
\* reads settings.ORDER_WORKFLOWS, which the settings of the repository do
\* not define, then merges the workflows and the bases (models.Model
\* declares no targets)
Order_new(style, configured, workflows) ==
    IF style = "instance" THEN [exc |-> Order_construct_exc, targets |-> {}]
    ELSE IF ~configured THEN [exc |-> "AttributeError", targets |-> {}]
    ELSE merge_targets(workflows \o <<{}>>, {})

NoOrderClass == [op |-> "none", exc |-> None, style |-> "none", configured |-> FALSE,
                 workflows |-> <<>>, targets |-> {}]

\* the record of the last call of a cart or order operation
NoShopCall == [op |-> "none", exc |-> None, cart |-> 0, product |-> None, quantity |-> 0,
               created |-> FALSE, item |-> 0, line_before |-> NoRow, changed |-> FALSE,
               dirtied |-> "none", hooks |-> 0, repeat |-> 0, cart_before |-> NewCart,
               items_before |-> {}, stock_before |-> [p \in Products |-> 0],
               customer_before |-> NoNumber, orders_before |-> {}, has_perm |-> TRUE,
               available |-> FALSE, raise_exception |-> FALSE, messages |-> 0,
               other_cart |-> 0, trace |-> <<>>, order_items_before |-> {},
               amounts_before |-> [subtotal |-> 0, total |-> 0]]

\* one run of the business method: it returns result, or raises outcome
MethodRuns == {[outcome |-> None, result |-> r] : r \in Results}
              \cup {[outcome |-> e, result |-> None] : e \in BusinessErrors}

NoCall == [op |-> "none", source |-> None, value |-> None, guards |-> [g \in Guards |-> TRUE],
           raised |-> None, result |-> None, exc |-> None, invoked |-> FALSE,
           signals |-> <<>>]

InitFSM ==
    /\ transitions \in Tables
    /\ state = None
    /\ in_dict = FALSE
    /\ fsm_call = NoCall
    /\ items = {}
    /\ next_id = 1
    /\ carts = {}
    /\ stock = [p \in Products |-> 0]
    /\ cart_obj = NewCart
    /\ order_items = {}
    /\ order_amounts = [subtotal |-> 0, total |-> 0]
    /\ shop_call = NoShopCall
    /\ customer_number = NoNumber
    /\ orders = {}
    /\ now = [year |-> FirstYear, tick |-> 1]
    /\ num_call = NoNumCall
    /\ payments = 0
    /\ amount_paid = NoAmount
    /\ store_config = store_cart_modifiers
    /\ pool_cache = NoCache
    /\ pool_call = NoPoolCall
    /\ order_class = NoOrderClass
    /\ store_saving = NotSaving
    /\ other_cache = NoCache
    /\ drafts = NoDrafts
    /\ conversions = NoConversions

\* Model.__init__ assigns the field through the descriptor: the name is not
\* yet in instance.__dict__, so the assignment is let through
Model_init ==
    /\ ~in_dict
    /\ \E value \in States :
        /\ ~set_refused(status_protected, in_dict)
        /\ state' = value
        /\ in_dict' = TRUE
        /\ fsm_call' = [NoCall EXCEPT !.op = "__init__", !.value = value]
    /\ UNCHANGED <<transitions, shop_vars, order_vars>>

\* instance.status = value
Descriptor_set ==
    /\ in_dict
    /\ \E value \in States :
        IF set_refused(status_protected, in_dict)
        THEN /\ fsm_call' = [NoCall EXCEPT !.op = "__set__", !.source = state,
                                           !.value = value, !.exc = "AttributeError"]
             /\ UNCHANGED <<state, in_dict>>
        ELSE /\ state' = value
             /\ fsm_call' = [NoCall EXCEPT !.op = "__set__", !.source = state,
                                           !.value = value]
             /\ UNCHANGED in_dict
    /\ UNCHANGED <<transitions, shop_vars, order_vars>>

\* FSMFieldMixin.change_state, the wrapper of the decorated business method:
\* its effect on the state field for one run of the method under rule table meta
ChangeState(meta, guard_values, run) ==
    LET current_state == state
        outcome == run.outcome
        result == run.result
        call == [NoCall EXCEPT !.op = "change_state", !.source = current_state,
                               !.guards = guard_values]
    IN  IF ~has_transition(meta, current_state)
        THEN /\ fsm_call' = [call EXCEPT !.exc = "TransitionNotAllowed"]
             /\ UNCHANGED state
        ELSE IF ~conditions_met(meta, guard_values, current_state)
        THEN /\ fsm_call' = [call EXCEPT !.exc = "TransitionNotAllowed"]
             /\ UNCHANGED state
        ELSE
          LET target == next_state(meta, current_state)
              pre == Signal("pre_transition", current_state, target, None)
              try == TryBlock(target, outcome, result)
              ran == [call EXCEPT !.invoked = TRUE, !.raised = outcome,
                                  !.result = IF outcome = None THEN result ELSE None]
          IN  IF try.exc # None
              THEN LET on_error == exception_state(meta, current_state)
                   IN  IF on_error # None
                       THEN /\ state' = on_error
                            /\ fsm_call' = [ran EXCEPT !.exc = try.exc,
                                 !.signals = <<pre, Signal("post_transition",
                                                 current_state, on_error, try.exc)>>]
                       ELSE /\ UNCHANGED state
                            /\ fsm_call' = [ran EXCEPT !.exc = try.exc,
                                                       !.signals = <<pre>>]
              ELSE /\ state' = IF try.assign = None THEN current_state ELSE try.assign
                   /\ fsm_call' = [ran EXCEPT !.signals = <<pre,
                        Signal("post_transition", current_state,
                               IF target = RETURN_VALUE THEN try.assign ELSE target,
                               None)>>]

\* a call of the decorated method on the instance
change_state ==
    /\ in_dict
    /\ \E guard_values \in [Guards -> BOOLEAN], run \in MethodRuns :
            ChangeState(transitions, guard_values, run)
    /\ UNCHANGED <<transitions, in_dict, shop_vars, order_vars>>

NextFSM == Model_init \/ Descriptor_set \/ change_state

Spec == InitFSM /\ [][NextFSM]_vars

-----------------------------------------------------------------------------
(* The cart and order operations                                           *)

ShopCall(op, cart) == [NoShopCall EXCEPT !.op = op, !.cart = cart]

\* Cart.save on the cart object the caller holds
Cart_save(cart_id) ==
    IF cart_id = RequestCart THEN [cart_obj EXCEPT !.dirty = TRUE] ELSE cart_obj

InitShop ==
    /\ items = {}
    /\ next_id = 1
    /\ carts = {RequestCart}
    /\ \E level \in {LowStock, AmpleStock} : stock = [p \in Products |-> level]
    /\ cart_obj = NewCart
    /\ order_items = {}
    /\ order_amounts = [subtotal |-> 0, total |-> 0]
    /\ shop_call = NoShopCall
    /\ customer_number = NoNumber
    /\ orders = {}
    /\ now = [year |-> FirstYear, tick |-> 1]
    /\ num_call = NoNumCall
    /\ payments = 0
    /\ amount_paid = NoAmount
    /\ store_config = store_cart_modifiers
    /\ pool_cache = NoCache
    /\ pool_call = NoPoolCall
    /\ order_class = NoOrderClass
    /\ store_saving = NotSaving
    /\ other_cache = NoCache
    /\ drafts = NoDrafts
    /\ conversions = NoConversions
    /\ transitions = populate_meta
    /\ state = "new"
    /\ in_dict = TRUE
    /\ fsm_call = NoCall

\* CartManager.get_or_create_from_request of another customer: a second cart
get_or_create_from_request ==
    /\ OtherCart \notin carts
    /\ carts' = carts \cup {OtherCart}
    /\ shop_call' = ShopCall("get_or_create_from_request", OtherCart)
    /\ UNCHANGED <<items, next_id, stock, cart_obj, order_items, order_amounts, fsm_vars,
                   order_vars>>

\* CartItemManager.get_or_create(cart=, product=, quantity=)
get_or_create ==
    \E cart \in carts, product \in Products, quantity \in 0..MaxQuantity :
        LET watched == quantity = 0
            cart_item == is_in_cart(items, cart, product, watched)
            created == cart_item = NoRow
            saved == IF created
                     THEN [id |-> next_id, cart |-> cart, product |-> product,
                           quantity |-> quantity]
                     ELSE IF ~watched
                     THEN [cart_item EXCEPT !.quantity = @ + quantity]
                     ELSE cart_item
        IN  /\ created => next_id <= MaxItemId
            /\ saved.quantity <= MaxQuantity
            /\ items' = (items \ {cart_item}) \cup {saved}
            /\ next_id' = IF created THEN next_id + 1 ELSE next_id
            \* CartItem.save saves item.cart: the caller's cart object for a new
            \* item, a cart object loaded for the item for one that was queried
            /\ cart_obj' = IF created THEN Cart_save(cart) ELSE cart_obj
            /\ shop_call' = [ShopCall("get_or_create", cart) EXCEPT
                                !.product = product, !.quantity = quantity,
                                !.created = created, !.item = saved.id,
                                !.line_before = cart_item,
                                !.changed = (items' # items),
                                !.dirtied = IF created THEN "caller" ELSE "other"]
            /\ UNCHANGED <<carts, stock, order_items, order_amounts, fsm_vars, order_vars>>

\* item.quantity = quantity; item.save(), the item taken from cart.items or
\* from a query of CartItem.objects
CartItem_save ==
    \E row \in items, quantity \in 0..MaxQuantity, via \in {"cart.items", "objects"} :
        /\ quantity # row.quantity
        /\ items' = (items \ {row}) \cup {[row EXCEPT !.quantity = quantity]}
        /\ cart_obj' = IF via = "cart.items" THEN Cart_save(row.cart) ELSE cart_obj
        /\ shop_call' = [ShopCall("CartItem.save", row.cart) EXCEPT
                            !.product = row.product, !.quantity = quantity,
                            !.item = row.id, !.line_before = row, !.changed = TRUE,
                            !.dirtied = IF via = "cart.items" THEN "caller" ELSE "other"]
        /\ UNCHANGED <<next_id, carts, stock, order_items, order_amounts, fsm_vars, order_vars>>

\* item.delete(): Model.delete saves nothing
CartItem_delete ==
    \E row \in items :
        /\ items' = items \ {row}
        /\ shop_call' = [ShopCall("CartItem.delete", row.cart) EXCEPT
                            !.product = row.product, !.item = row.id,
                            !.line_before = row, !.changed = TRUE, !.dirtied = "none"]
        /\ UNCHANGED <<next_id, carts, stock, cart_obj, order_items, order_amounts,
                       fsm_vars, order_vars>>

\* the loop of Cart.merge_with over the lines ids of this cart: a line whose
\* product is in the other cart takes that line's quantity, is saved, and the
\* other line is deleted
merge_lines_skipped(ids, rows, other_cart) == rows

RECURSIVE merge_lines(_, _, _)
merge_lines(ids, rows, other_cart) ==
    IF ids = {} THEN rows
    ELSE LET item == first({r \in rows : r.id \in ids})
             other_item == is_in_cart(rows, other_cart, item.product, FALSE)
             merged == IF other_item # NoRow
                       THEN (rows \ {item, other_item})
                            \cup {[item EXCEPT !.quantity = @ + other_item.quantity]}
                       ELSE rows
         IN  merge_lines(ids \ {item.id}, merged, other_cart)

\* Cart.merge_with(other_cart) on the request's cart
merge_with ==
    \E other_cart \in carts :
        IF other_cart = RequestCart
        THEN /\ shop_call' = [ShopCall("merge_with", RequestCart) EXCEPT
                                 !.exc = "RuntimeError"]
             /\ UNCHANGED <<items, next_id, carts, stock, cart_obj, order_items,
                            order_amounts, fsm_vars, order_vars>>
        ELSE LET own == {r \in items : r.cart = RequestCart}
                 merged == merge_lines({r.id : r \in own}, items, other_cart)
                 \* other_cart.items.update(cart=self): no save() is called
                 moved == {[r EXCEPT !.cart = RequestCart] : r \in merged}
                 saved == \E r \in own :
                              is_in_cart(items, other_cart, r.product, FALSE) # NoRow
             IN  /\ \A r \in moved : r.quantity <= MaxQuantity
                 /\ items' = moved
                 /\ carts' = carts \ {other_cart}
                 /\ cart_obj' = IF saved THEN Cart_save(RequestCart) ELSE cart_obj
                 /\ shop_call' = [ShopCall("merge_with", RequestCart) EXCEPT
                                     !.other_cart = other_cart, !.items_before = items,
                                     !.changed = (moved # items),
                                     !.dirtied = IF saved THEN "caller" ELSE "none"]
                 /\ UNCHANGED <<next_id, stock, order_items, order_amounts, fsm_vars,
                                order_vars>>

\* Cart.update(request, raise_exception) on the request's cart
Cart_update ==
    \E raise_exception \in BOOLEAN :
        LET r == Cart_update_result(cart_obj, items, stock, raise_exception)
        IN  /\ items' = r.rows
            /\ cart_obj' = r.cart
            /\ shop_call' = [ShopCall("Cart.update", RequestCart) EXCEPT
                                !.exc = r.exc, !.hooks = r.hooks, !.trace = r.trace,
                                !.cart_before = cart_obj, !.items_before = items,
                                !.repeat = IF shop_call.op = "Cart.update" THEN 2 ELSE 1]
            /\ UNCHANGED <<next_id, carts, stock, order_items, order_amounts, fsm_vars,
                           order_vars>>

\* order.populate_from_cart(cart, request): transaction.atomic around the
\* transition wrapper around the body
populate_from_cart ==
    LET guard_values == [g \in Guards |-> TRUE]
        body == populate_body(cart_obj, items, stock)
        invoked == /\ has_transition(transitions, state)
                   /\ conditions_met(transitions, guard_values, state)
        committed == invoked /\ body.exc = None
    IN  /\ ChangeState(transitions, guard_values, [outcome |-> body.exc, result |-> None])
        /\ items' = IF committed THEN body.rows ELSE items
        /\ stock' = IF committed THEN body.stock ELSE stock
        /\ order_items' = IF committed THEN body.order_items ELSE order_items
        /\ order_amounts' = IF committed
                            THEN [subtotal |-> cart_obj.subtotal, total |-> cart_obj.total]
                            ELSE order_amounts
        /\ shop_call' = [ShopCall("populate_from_cart", RequestCart) EXCEPT
                            !.exc = IF invoked THEN body.exc ELSE "TransitionNotAllowed",
                            !.cart_before = cart_obj,
                            !.items_before = items, !.stock_before = stock,
                            !.order_items_before = order_items,
                            !.amounts_before = order_amounts]
        /\ UNCHANGED <<transitions, in_dict, next_id, carts, cart_obj, order_vars>>

\* Order.objects.create_from_cart(cart, request): no transaction is opened,
\* every step that saves is kept when a later step raises
create_from_cart ==
    LET upd == Cart_update_result(cart_obj, items, stock, FALSE)
        customer == Customer_get_or_assign_number(customer_number, {})
        constructed == upd.exc = None /\ Order_construct_exc = None
        number == Order_get_or_assign_number(NoNumber, orders, now)
    IN  /\ items' = upd.rows
        /\ cart_obj' = upd.cart
        /\ customer_number' = IF upd.exc = None THEN customer ELSE customer_number
        /\ orders' = IF constructed
                     THEN orders \cup {[number |-> number, status |-> "new", subtotal |-> 0,
                                        total |-> 0, created_at |-> now]}
                     ELSE orders
        /\ shop_call' = [ShopCall("create_from_cart", RequestCart) EXCEPT
                            !.exc = IF upd.exc # None THEN upd.exc ELSE Order_construct_exc,
                            !.cart_before = cart_obj, !.items_before = items,
                            !.customer_before = customer_number,
                            !.orders_before = orders]
        /\ UNCHANGED <<next_id, carts, stock, order_items, order_amounts, now, num_call,
                       payments, amount_paid, pool_vars, fsm_vars>>

NextShop ==
    \/ get_or_create_from_request
    \/ get_or_create
    \/ CartItem_save
    \/ CartItem_delete
    \/ merge_with
    \/ Cart_update
    \/ populate_from_cart
    \/ create_from_cart

SpecShop == InitShop /\ [][NextShop]_vars

\* (product, cart) names one line
OneLinePerProduct ==
    \A r1, r2 \in items : r1.cart = r2.cart /\ r1.product = r2.product => r1 = r2

\* the request's cart never leaves the state Cart.__init__ gives it
CartNeverComputed == cart_obj = NewCart

-----------------------------------------------------------------------------
(* The pre-phase hook of the default modifier on the lines of the carts    *)

\* DefaultCartModifier().pre_process_cart_item(cart, cart_item, request,
\* raise_exception) on a loaded line; quantity records cart_item.quantity as
\* the call leaves it
DefaultCartModifier_pre_process_cart_item ==
    \E cart_item \in items, raise_exception \in BOOLEAN :
        LET r == pre_process_cart_item(items, stock, cart_item, raise_exception)
            availability == get_availability(items, stock, cart_item.product)
            assigned == cart_item.quantity > availability /\ ~raise_exception
        IN  /\ items' = r.rows
            /\ cart_obj' = IF items' # items THEN Cart_save(cart_item.cart) ELSE cart_obj
            /\ shop_call' = [ShopCall("pre_process_cart_item", cart_item.cart) EXCEPT
                                !.exc = r.exc, !.product = cart_item.product,
                                !.item = cart_item.id, !.line_before = cart_item,
                                !.quantity = IF assigned THEN availability
                                             ELSE cart_item.quantity,
                                !.changed = (items' # items),
                                !.raise_exception = raise_exception,
                                !.messages = r.messages,
                                !.items_before = items, !.stock_before = stock]
            /\ UNCHANGED <<next_id, carts, stock, order_items, order_amounts, fsm_vars,
                           order_vars>>

NextPre ==
    \/ get_or_create_from_request
    \/ get_or_create
    \/ CartItem_save
    \/ CartItem_delete
    \/ DefaultCartModifier_pre_process_cart_item

SpecPre == InitShop /\ [][NextPre]_vars

-----------------------------------------------------------------------------
(* Order numbers: Order.get_or_assign_number, get_number, resolve_number   *)

\* the highest counters of the orders persisted before the model starts
StartCounters == {0, 1, 99998, 99999}

\* an order row in status new
NewOrder(number, created_at) ==
    [number |-> number, status |-> "new", subtotal |-> 0, total |-> 0,
     created_at |-> created_at]

InitNumber ==
    /\ \E c \in StartCounters :
          orders = IF c = 0 THEN {}
                   ELSE {NewOrder(int(str(FirstYear) \o pad_05d(str(c))),
                                  [year |-> FirstYear, tick |-> 1])}
    /\ now = [year |-> FirstYear, tick |-> 1]
    /\ num_call = NoNumCall
    /\ payments = 0
    /\ amount_paid = NoAmount
    /\ store_config = store_cart_modifiers
    /\ pool_cache = NoCache
    /\ pool_call = NoPoolCall
    /\ order_class = NoOrderClass
    /\ store_saving = NotSaving
    /\ other_cache = NoCache
    /\ drafts = NoDrafts
    /\ conversions = NoConversions
    /\ customer_number = NoNumber
    /\ items = {}
    /\ next_id = 1
    /\ carts = {RequestCart}
    /\ stock = [p \in Products |-> AmpleStock]
    /\ cart_obj = NewCart
    /\ order_items = {}
    /\ order_amounts = [subtotal |-> 0, total |-> 0]
    /\ shop_call = NoShopCall
    /\ transitions = populate_meta
    /\ state = "new"
    /\ in_dict = TRUE
    /\ fsm_call = NoCall

\* time passes
Tick ==
    /\ next_instant(now).year <= LastYear
    /\ now' = next_instant(now)
    /\ num_call' = [NoNumCall EXCEPT !.op = "tick"]
    /\ UNCHANGED <<customer_number, orders, payments, amount_paid, pool_vars, fsm_vars,
                   shop_vars>>

\* a new order: get_or_assign_number reads the clock and the table, then
\* order.save() inserts the row, created_at read from the clock at the insert
Order_create ==
    \E saved_at \in {next_instant(now), next_instant(next_instant(now))} :
        LET number == Order_get_or_assign_number(NoNumber, orders, now)
            unique == \A o \in orders : o.number # number
        IN  /\ saved_at.year <= LastYear
            /\ now' = saved_at
            /\ orders' = IF unique THEN orders \cup {NewOrder(number, saved_at)}
                         ELSE orders
            /\ num_call' = [NoNumCall EXCEPT !.op = "create", !.number = number,
                               !.exc = IF unique THEN None ELSE "IntegrityError",
                               !.year = now.year, !.orders_before = orders]
            /\ UNCHANGED <<customer_number, payments, amount_paid, pool_vars, fsm_vars,
                           shop_vars>>

\* get_or_assign_number on an order that has its number
Order_get_or_assign_again ==
    \E o \in orders :
        LET number == Order_get_or_assign_number(o.number, orders, now)
        IN  /\ orders' = (orders \ {o}) \cup {[o EXCEPT !.number = number]}
            /\ num_call' = [NoNumCall EXCEPT !.op = "get_or_assign", !.number = number,
                               !.number_before = o.number, !.year = now.year,
                               !.orders_before = orders,
                               !.slug = get_number(number)]
            /\ UNCHANGED <<customer_number, now, payments, amount_paid, pool_vars,
                           fsm_vars, shop_vars>>

\* a lookup of an order by its formatted number: filter(slug=order.get_number())
Order_filter_slug ==
    \E o \in orders :
        /\ num_call' = [NoNumCall EXCEPT !.op = "filter", !.number = o.number,
                           !.slug = get_number(o.number),
                           !.lookup = resolve_number(get_number(o.number))]
        /\ UNCHANGED <<customer_number, orders, now, payments, amount_paid, pool_vars,
                       fsm_vars, shop_vars>>

NextNumber == Tick \/ Order_create \/ Order_get_or_assign_again \/ Order_filter_slug

SpecNumber == InitNumber /\ [][NextNumber]_vars

-----------------------------------------------------------------------------
(* Two requests creating orders side by side                               *)

\* the most orders the requests persist
MaxOrders == 3

InitRace ==
    /\ drafts = NoDrafts
    /\ conversions = NoConversions
    /\ \E c \in {0, 1} :
          orders = IF c = 0 THEN {}
                   ELSE {NewOrder(int(str(FirstYear) \o pad_05d(str(c))),
                                  [year |-> FirstYear, tick |-> 1])}
    /\ now = [year |-> FirstYear, tick |-> 1]
    /\ num_call = NoNumCall
    /\ payments = 0
    /\ amount_paid = NoAmount
    /\ store_config = store_cart_modifiers
    /\ pool_cache = NoCache
    /\ pool_call = NoPoolCall
    /\ order_class = NoOrderClass
    /\ store_saving = NotSaving
    /\ other_cache = NoCache
    /\ customer_number = NoNumber
    /\ items = {}
    /\ next_id = 1
    /\ carts = {RequestCart}
    /\ stock = [p \in Products |-> AmpleStock]
    /\ cart_obj = NewCart
    /\ order_items = {}
    /\ order_amounts = [subtotal |-> 0, total |-> 0]
    /\ shop_call = NoShopCall
    /\ transitions = populate_meta
    /\ state = "new"
    /\ in_dict = TRUE
    /\ fsm_call = NoCall

\* create_from_cart of request p, line 59: order.get_or_assign_number() reads
\* the highest number of the table and sets the number of the unsaved order
Draft_get_or_assign_number(p) ==
    /\ drafts.pc[p] = "idle"
    /\ Len(drafts.persisted) < MaxOrders
    /\ LET number == Order_get_or_assign_number(NoNumber, orders, now)
       IN  /\ drafts' = [drafts EXCEPT !.pc[p] = "numbered", !.number[p] = number]
           /\ num_call' = [NoNumCall EXCEPT !.op = "get_or_assign", !.number = number,
                              !.year = now.year, !.orders_before = orders]
    /\ UNCHANGED <<orders, now, conversions, customer_number, payments, amount_paid, store_config,
                   pool_cache, pool_call, order_class, store_saving, other_cache,
                   fsm_vars, shop_vars>>

\* create_from_cart of request p, line 61: order.save() inserts the row
Draft_save(p) ==
    /\ drafts.pc[p] = "numbered"
    /\ LET number == drafts.number[p]
           accepted == number_unique(orders, number)
       IN  /\ orders' = IF accepted THEN orders \cup {NewOrder(number, now)} ELSE orders
           /\ drafts' = [drafts EXCEPT
                            !.pc[p] = IF accepted THEN "saved" ELSE "failed",
                            !.persisted = IF accepted THEN Append(@, number) ELSE @]
           /\ num_call' = [NoNumCall EXCEPT !.op = "save", !.number = number,
                              !.exc = IF accepted THEN None ELSE "IntegrityError",
                              !.year = now.year, !.orders_before = orders]
    /\ UNCHANGED <<now, conversions, customer_number, payments, amount_paid, store_config,
                   pool_cache, pool_call, order_class, store_saving, other_cache,
                   fsm_vars, shop_vars>>

\* the request of p ends; p serves the next one
Draft_done(p) ==
    /\ drafts.pc[p] \in {"saved", "failed"}
    /\ drafts' = [drafts EXCEPT !.pc[p] = "idle", !.number[p] = NoNumber]
    /\ num_call' = [NoNumCall EXCEPT !.op = "done"]
    /\ UNCHANGED <<orders, now, conversions, customer_number, payments, amount_paid, store_config,
                   pool_cache, pool_call, order_class, store_saving, other_cache,
                   fsm_vars, shop_vars>>

NextRace ==
    \E p \in Procs :
        \/ Draft_get_or_assign_number(p)
        \/ Draft_save(p)
        \/ Draft_done(p)

SpecRace == InitRace /\ [][NextRace]_vars

-----------------------------------------------------------------------------
(* Two requests converting cart lines of one product                       *)

\* the most order items the requests create
MaxOrderItems == 3

\* the product both carts hold
Sold == "A"

InitStock ==
    /\ \E level \in {LowStock, AmpleStock} :
          /\ stock = [p \in Products |-> level]
          /\ conversions = [NoConversions EXCEPT !.initial = level]
    /\ drafts = NoDrafts
    /\ orders = {}
    /\ now = [year |-> FirstYear, tick |-> 1]
    /\ num_call = NoNumCall
    /\ payments = 0
    /\ amount_paid = NoAmount
    /\ store_config = store_cart_modifiers
    /\ pool_cache = NoCache
    /\ pool_call = NoPoolCall
    /\ order_class = NoOrderClass
    /\ store_saving = NotSaving
    /\ other_cache = NoCache
    /\ customer_number = NoNumber
    /\ items = {}
    /\ next_id = 1
    /\ carts = {RequestCart}
    /\ cart_obj = NewCart
    /\ order_items = {}
    /\ order_amounts = [subtotal |-> 0, total |-> 0]
    /\ shop_call = NoShopCall
    /\ transitions = populate_meta
    /\ state = "new"
    /\ in_dict = TRUE
    /\ fsm_call = NoCall

\* OrderItem.populate_from_cart_item of request p reaches cart_item.product:
\* the Product instance is fetched, with the quantity the row has then
Product_load(p) ==
    \E quantity \in 1..MaxQuantity :
        /\ conversions.pc[p] = "idle"
        /\ Cardinality(order_items) < MaxOrderItems
        /\ conversions' = [conversions EXCEPT !.pc[p] = "loaded",
                              !.quantity[p] = quantity, !.loaded[p] = stock[Sold]]
        /\ shop_call' = [ShopCall("cart_item.product", p) EXCEPT
                            !.product = Sold, !.quantity = quantity,
                            !.stock_before = stock]
        /\ UNCHANGED <<items, next_id, carts, stock, cart_obj, order_items, order_amounts,
                       customer_number, orders, now, num_call, payments, amount_paid,
                       store_config, pool_cache, pool_call, order_class, store_saving,
                       other_cache, drafts, fsm_vars>>

\* Product.deduct_from_stock(quantity) on the instance request p holds, then
\* order_item.save(): the check and the subtraction use the fetched quantity,
\* save(update_fields=['quantity']) writes the result
Product_deduct_from_stock(p) ==
    /\ conversions.pc[p] = "loaded"
    /\ LET quantity == conversions.quantity[p]
           self_quantity == conversions.loaded[p]
           refused == quantity > self_quantity
       IN  /\ stock' = IF refused THEN stock
                       ELSE [stock EXCEPT ![Sold] = self_quantity - quantity]
           /\ order_items' = IF refused THEN order_items
                             ELSE order_items \cup
                                  {[id |-> Cardinality(order_items) + 1, product |-> Sold,
                                    quantity |-> quantity,
                                    unit_price |-> unit_price[Sold],
                                    line_total |-> unit_price[Sold] * quantity]}
           /\ conversions' = [conversions EXCEPT
                                 !.pc[p] = IF refused THEN "failed" ELSE "done"]
           /\ shop_call' = [ShopCall("deduct_from_stock", p) EXCEPT
                               !.exc = IF refused THEN "ProductNotAvailable" ELSE None,
                               !.product = Sold, !.quantity = quantity,
                               !.stock_before = stock]
    /\ UNCHANGED <<items, next_id, carts, cart_obj, order_amounts, customer_number,
                   orders, now, num_call, payments, amount_paid, store_config,
                   pool_cache, pool_call, order_class, store_saving, other_cache,
                   drafts, fsm_vars>>

\* the request of p ends; p serves the next one
Conversion_done(p) ==
    /\ conversions.pc[p] \in {"done", "failed"}
    /\ conversions' = [conversions EXCEPT !.pc[p] = "idle", !.quantity[p] = 0,
                                          !.loaded[p] = 0]
    /\ shop_call' = ShopCall("done", p)
    /\ UNCHANGED <<items, next_id, carts, stock, cart_obj, order_items, order_amounts,
                   customer_number, orders, now, num_call, payments, amount_paid,
                   store_config, pool_cache, pool_call, order_class, store_saving,
                   other_cache, drafts, fsm_vars>>

NextStock ==
    \E p \in Procs :
        \/ Product_load(p)
        \/ Product_deduct_from_stock(p)
        \/ Conversion_done(p)

SpecStock == InitStock /\ [][NextStock]_vars

-----------------------------------------------------------------------------
(* Payments: OrderPayment, Order.amount_paid, Order.acknowledge_payment    *)

\* the largest order total, single payment and sum of payments
MaxTotal == 3
MaxPayment == 2
MaxPaid == 4

InitPayment ==
    /\ state \in {"new", "created"}
    /\ \E total \in 0..MaxTotal : order_amounts = [subtotal |-> total, total |-> total]
    /\ payments = 0
    /\ amount_paid = NoAmount
    /\ store_config = store_cart_modifiers
    /\ pool_cache = NoCache
    /\ pool_call = NoPoolCall
    /\ order_class = NoOrderClass
    /\ store_saving = NotSaving
    /\ other_cache = NoCache
    /\ drafts = NoDrafts
    /\ conversions = NoConversions
    /\ transitions = acknowledge_meta
    /\ in_dict = TRUE
    /\ fsm_call = NoCall
    /\ shop_call = NoShopCall
    /\ items = {}
    /\ next_id = 1
    /\ carts = {RequestCart}
    /\ stock = [p \in Products |-> AmpleStock]
    /\ cart_obj = NewCart
    /\ order_items = {}
    /\ customer_number = NoNumber
    /\ orders = {}
    /\ now = [year |-> FirstYear, tick |-> 1]
    /\ num_call = NoNumCall

\* OrderPayment.objects.create(order=order, amount=amount, ...)
OrderPayment_create ==
    \E amount \in 1..MaxPayment :
        /\ payments + amount <= MaxPaid
        /\ payments' = payments + amount
        /\ shop_call' = [ShopCall("OrderPayment.create", RequestCart) EXCEPT
                            !.quantity = amount]
        /\ UNCHANGED <<fsm_vars, items, next_id, carts, stock, cart_obj, order_items,
                       order_amounts, customer_number, orders, now, num_call,
                       amount_paid, pool_vars>>

\* a read of order.amount_paid (outstanding_amount, the order serializers)
Order_amount_paid ==
    /\ amount_paid' = read_amount_paid(amount_paid, payments)
    /\ shop_call' = [ShopCall("amount_paid", RequestCart) EXCEPT
                        !.quantity = read_amount_paid(amount_paid, payments)]
    /\ UNCHANGED <<fsm_vars, items, next_id, carts, stock, cart_obj, order_items,
                   order_amounts, customer_number, orders, now, num_call, payments,
                   pool_vars>>

\* order.acknowledge_payment(): change_state evaluates the condition
\* is_fully_paid, which reads amount_paid
acknowledge_payment ==
    LET guard_values ==
            [g \in Guards |-> is_fully_paid(amount_paid, payments, order_amounts.total)]
    IN  /\ ChangeState(transitions, guard_values, [outcome |-> None, result |-> None])
        /\ amount_paid' = IF has_transition(transitions, state)
                          THEN read_amount_paid(amount_paid, payments)
                          ELSE amount_paid
        /\ shop_call' = ShopCall("acknowledge_payment", RequestCart)
        /\ UNCHANGED <<transitions, in_dict, items, next_id, carts, stock, cart_obj,
                       order_items, order_amounts, customer_number, orders, now,
                       num_call, payments, pool_vars>>

NextPayment == OrderPayment_create \/ Order_amount_paid \/ acknowledge_payment

SpecPayment == InitPayment /\ [][NextPayment]_vars

-----------------------------------------------------------------------------
(* Permissions of a transition: Transition.has_perm                        *)

\* the permission a rule declares
Permissions == {None, "shop.change_order"}

\* a rule with its permission
PermTransition == [target : {"created", None}, on_error : {None},
                   conditions : SUBSET Guards, permission : Permissions]

PermTables == UNION {[S -> PermTransition] :
                        S \in {X \in SUBSET Sources : Cardinality(X) <= MaxRules}}

\* Transition.has_perm(instance, user); user_has_perm: what permission(instance,
\* user) or user.has_perm(permission, ...) answers for the declared permission
has_perm(transition, user_has_perm) ==
    IF transition.permission = None THEN TRUE ELSE user_has_perm

InitPerm ==
    /\ transitions \in PermTables
    /\ state \in States
    /\ in_dict = TRUE
    /\ fsm_call = NoCall
    /\ shop_call = NoShopCall
    /\ items = {}
    /\ next_id = 1
    /\ carts = {RequestCart}
    /\ stock = [p \in Products |-> AmpleStock]
    /\ cart_obj = NewCart
    /\ order_items = {}
    /\ order_amounts = [subtotal |-> 0, total |-> 0]
    /\ customer_number = NoNumber
    /\ orders = {}
    /\ now = [year |-> FirstYear, tick |-> 1]
    /\ num_call = NoNumCall
    /\ payments = 0
    /\ amount_paid = NoAmount
    /\ store_config = store_cart_modifiers
    /\ pool_cache = NoCache
    /\ pool_call = NoPoolCall
    /\ order_class = NoOrderClass
    /\ store_saving = NotSaving
    /\ other_cache = NoCache
    /\ drafts = NoDrafts
    /\ conversions = NoConversions

\* a principal calls the decorated method: change_state is given the instance
\* and the method, it neither takes nor looks up the principal
change_state_by_user ==
    \E user_has_perm \in BOOLEAN, guard_values \in [Guards -> BOOLEAN] :
        /\ ChangeState(transitions, guard_values, [outcome |-> None, result |-> "created"])
        /\ shop_call' = [ShopCall("change_state", 0) EXCEPT !.has_perm = user_has_perm]
        /\ UNCHANGED <<transitions, in_dict, items, next_id, carts, stock, cart_obj,
                       order_items, order_amounts, order_vars>>

\* get_available_user_FIELD_transitions(instance, user): whether the method's
\* rule is listed for the principal
get_available_user_transitions ==
    \E user_has_perm \in BOOLEAN, guard_values \in [Guards -> BOOLEAN] :
        /\ shop_call' = [ShopCall("get_available_user_transitions", 0) EXCEPT
                            !.has_perm = user_has_perm,
                            !.available =
                                /\ has_transition(transitions, state)
                                /\ conditions_met(transitions, guard_values, state)
                                /\ has_perm(get_transition(transitions, state),
                                            user_has_perm)]
        /\ fsm_call' = [NoCall EXCEPT !.op = "available", !.source = state,
                                      !.guards = guard_values]
        /\ UNCHANGED <<transitions, state, in_dict, items, next_id, carts, stock,
                       cart_obj, order_items, order_amounts, order_vars>>

NextPerm == change_state_by_user \/ get_available_user_transitions

SpecPerm == InitPerm /\ [][NextPerm]_vars

-----------------------------------------------------------------------------
(* The modifier pools: resolution, caching and invalidation                *)

Identifiers == {"default", "taxes", NoIdentifier}

MaxModifiers == 3

\* the modifier lists a store can be configured with
Configs == UNION {[1..n -> Identifiers] : n \in 0..MaxModifiers}

InitPool ==
    /\ store_config \in Configs
    /\ pool_cache = NoCache
    /\ pool_call = NoPoolCall
    /\ order_class = NoOrderClass
    /\ store_saving = NotSaving
    /\ other_cache = NoCache
    /\ drafts = NoDrafts
    /\ conversions = NoConversions
    /\ transitions = populate_meta
    /\ state = None
    /\ in_dict = FALSE
    /\ fsm_call = NoCall
    /\ items = {}
    /\ next_id = 1
    /\ carts = {}
    /\ stock = [p \in Products |-> 0]
    /\ cart_obj = NewCart
    /\ order_items = {}
    /\ order_amounts = [subtotal |-> 0, total |-> 0]
    /\ shop_call = NoShopCall
    /\ customer_number = NoNumber
    /\ orders = {}
    /\ now = [year |-> FirstYear, tick |-> 1]
    /\ num_call = NoNumCall
    /\ payments = 0
    /\ amount_paid = NoAmount

PoolCall(op, exc, modifiers, cached) ==
    [op |-> op, exc |-> exc, modifiers |-> modifiers, cached |-> cached]

\* cart_modifiers_pool.get_all_modifiers(store) of shop.modifier
pool_get_all ==
    \E asserts \in BOOLEAN :
    LET r == pool_get_all_modifiers(pool_cache, store_config, asserts)
    IN  /\ pool_cache' = r.cache
        /\ pool_call' = PoolCall("get_all_modifiers", r.exc, r.modifiers, pool_cache.primed)
        /\ UNCHANGED <<store_config, order_class, store_saving, other_cache, drafts,
                       conversions, customer_number, orders, now, num_call,
                       payments, amount_paid, fsm_vars, shop_vars>>

\* cart_modifiers_pool.get_all_modifiers(store=store) of shop.support
support_get_all ==
    /\ pool_call' = PoolCall("support.get_all_modifiers",
                             support_get_all_modifiers("request", "store").exc, <<>>, FALSE)
    /\ UNCHANGED <<store_config, pool_cache, order_class, store_saving, other_cache,
                   drafts, conversions, customer_number, orders, now,
                   num_call, payments, amount_paid, fsm_vars, shop_vars>>

\* store.save() with another modifier list: pre_save runs clear_site_cache
Store_save ==
    \E config \in Configs :
        /\ store_config' = config
        /\ pool_cache' = NoCache
        /\ pool_call' = PoolCall("Store.save", None, <<>>, FALSE)
        /\ UNCHANGED <<order_class, store_saving, other_cache, drafts, conversions, customer_number,
                       orders, now, num_call, payments,
                       amount_paid, fsm_vars, shop_vars>>

\* cart_modifiers_pool.clear_cache()
clear_cache ==
    /\ pool_cache' = NoCache
    /\ pool_call' = PoolCall("clear_cache", None, <<>>, FALSE)
    /\ UNCHANGED <<store_config, order_class, store_saving, other_cache, drafts,
                   conversions, customer_number, orders, now, num_call,
                   payments, amount_paid, fsm_vars, shop_vars>>

NextPool == pool_get_all \/ support_get_all \/ Store_save \/ clear_cache

SpecPool == InitPool /\ [][NextPool]_vars

-----------------------------------------------------------------------------
(* A store edit beside resolutions of the pipeline                         *)

\* the modifier lists get_all_modifiers accepts
WellConfigs == {config \in Configs : unique_identifiers(config)}

InitInvalidate ==
    /\ store_config \in WellConfigs
    /\ pool_cache = NoCache
    /\ pool_call = NoPoolCall
    /\ order_class = NoOrderClass
    /\ store_saving = NotSaving
    /\ other_cache = NoCache
    /\ drafts = NoDrafts
    /\ conversions = NoConversions
    /\ transitions = populate_meta
    /\ state = None
    /\ in_dict = FALSE
    /\ fsm_call = NoCall
    /\ items = {}
    /\ next_id = 1
    /\ carts = {}
    /\ stock = [p \in Products |-> 0]
    /\ cart_obj = NewCart
    /\ order_items = {}
    /\ order_amounts = [subtotal |-> 0, total |-> 0]
    /\ shop_call = NoShopCall
    /\ customer_number = NoNumber
    /\ orders = {}
    /\ now = [year |-> FirstYear, tick |-> 1]
    /\ num_call = NoNumCall
    /\ payments = 0
    /\ amount_paid = NoAmount

\* store.save() of an edited modifier list, first half: Model.save sends
\* pre_save, whose receiver clear_site_cache deletes the store's entry
Store_pre_save ==
    \E config \in WellConfigs :
        /\ ~store_saving.active
        /\ config # store_config
        /\ store_saving' = [active |-> TRUE, config |-> config]
        /\ pool_cache' = NoCache
        /\ pool_call' = PoolCall("pre_save", None, <<>>, FALSE)
        /\ UNCHANGED <<store_config, other_cache, order_class, drafts, conversions, customer_number, orders,
                       now, num_call, payments, amount_paid, fsm_vars, shop_vars>>

\* store.save(), second half: the UPDATE of the row; no receiver is connected
\* to post_save
Store_write ==
    /\ store_saving.active
    /\ store_config' = store_saving.config
    /\ store_saving' = NotSaving
    /\ pool_call' = PoolCall("Store.save", None, <<>>, FALSE)
    /\ UNCHANGED <<pool_cache, other_cache, order_class, drafts, conversions, customer_number, orders, now,
                   num_call, payments, amount_paid, fsm_vars, shop_vars>>

\* get_all_modifiers(other) for another store, whose list is not edited
pool_get_all_other ==
    LET r == pool_get_all_modifiers(other_cache, store_cart_modifiers, TRUE)
    IN  /\ other_cache' = r.cache
        /\ pool_call' = PoolCall("get_all_modifiers(other)", r.exc, r.modifiers,
                                 other_cache.primed)
        /\ UNCHANGED <<store_config, pool_cache, store_saving, order_class,
                       drafts, conversions, customer_number, orders, now, num_call, payments, amount_paid,
                       fsm_vars, shop_vars>>

NextInvalidate == Store_pre_save \/ Store_write \/ pool_get_all \/ pool_get_all_other

SpecInvalidate == InitInvalidate /\ [][NextInvalidate]_vars

-----------------------------------------------------------------------------
(* Order.__new__: merging the workflows' transition targets                *)

\* the target names a workflow mixin may declare
MixinTargets == {"new", "shipped", "refunded"}

MaxWorkflows == 2

\* the values settings.ORDER_WORKFLOWS can take, as the targets of each mixin
Workflows == UNION {[1..n -> SUBSET MixinTargets] : n \in 0..MaxWorkflows}

\* the Order class before any call of its __new__
InitWorkflow ==
    /\ order_class = NoOrderClass
    /\ store_saving = NotSaving
    /\ other_cache = NoCache
    /\ drafts = NoDrafts
    /\ conversions = NoConversions
    /\ store_config = store_cart_modifiers
    /\ pool_cache = NoCache
    /\ pool_call = NoPoolCall
    /\ transitions = populate_meta
    /\ state = None
    /\ in_dict = FALSE
    /\ fsm_call = NoCall
    /\ items = {}
    /\ next_id = 1
    /\ carts = {}
    /\ stock = [p \in Products |-> 0]
    /\ cart_obj = NewCart
    /\ order_items = {}
    /\ order_amounts = [subtotal |-> 0, total |-> 0]
    /\ shop_call = NoShopCall
    /\ customer_number = NoNumber
    /\ orders = {}
    /\ now = [year |-> FirstYear, tick |-> 1]
    /\ num_call = NoNumCall
    /\ payments = 0
    /\ amount_paid = NoAmount

\* one call of Order.__new__
Order__new__ ==
    \E style \in {"instance", "metaclass"}, configured \in BOOLEAN, workflows \in Workflows :
        /\ ~configured => workflows = <<>>
        /\ LET r == Order_new(style, configured, workflows)
           IN  order_class' = [op |-> "Order.__new__", exc |-> r.exc, style |-> style,
                               configured |-> configured, workflows |-> workflows,
                               targets |-> r.targets]
        /\ UNCHANGED <<store_config, pool_cache, pool_call, store_saving, other_cache,
                       drafts, conversions, customer_number, orders, now,
                       num_call, payments, amount_paid, fsm_vars, shop_vars>>

NextWorkflow == Order__new__

SpecWorkflow == InitWorkflow /\ [][NextWorkflow]_vars

-----------------------------------------------------------------------------
(* An order through create, populate and acknowledge                       *)

\* an order that is new, or was populated before with some lines and totals
InitOnce ==
    /\ \/ /\ state = "new"
          /\ order_items = {}
          /\ order_amounts = [subtotal |-> 0, total |-> 0]
       \/ /\ state = "created"
          /\ \E p \in Products, q \in 1..MaxQuantity :
                /\ order_items = {[product |-> p, quantity |-> q,
                                   unit_price |-> unit_price[p],
                                   line_total |-> unit_price[p] * q]}
                /\ order_amounts = [subtotal |-> unit_price[p] * q,
                                    total |-> unit_price[p] * q]
    /\ \E level \in {LowStock, AmpleStock} : stock = [p \in Products |-> level]
    /\ transitions = populate_meta
    /\ in_dict = TRUE
    /\ fsm_call = NoCall
    /\ shop_call = NoShopCall
    /\ items = {}
    /\ next_id = 1
    /\ carts = {RequestCart}
    /\ cart_obj = NewCart
    /\ customer_number = NoNumber
    /\ orders = {}
    /\ now = [year |-> FirstYear, tick |-> 1]
    /\ num_call = NoNumCall
    /\ payments = 0
    /\ amount_paid = NoAmount
    /\ store_config = store_cart_modifiers
    /\ pool_cache = NoCache
    /\ pool_call = NoPoolCall
    /\ order_class = NoOrderClass
    /\ store_saving = NotSaving
    /\ other_cache = NoCache
    /\ drafts = NoDrafts
    /\ conversions = NoConversions

\* a payment large enough for the order's total is recorded
OrderPayment_create_full ==
    /\ payments = 0
    /\ payments' = order_amounts.total
    /\ shop_call' = [ShopCall("OrderPayment.create", RequestCart) EXCEPT
                        !.quantity = order_amounts.total]
    /\ UNCHANGED <<fsm_vars, items, next_id, carts, stock, cart_obj, order_items,
                   order_amounts, customer_number, orders, now, num_call,
                   amount_paid, pool_vars>>

\* order.acknowledge_payment() on the order, under its own rule table
Order_acknowledge_payment ==
    LET guard_values ==
            [g \in Guards |-> is_fully_paid(amount_paid, payments, order_amounts.total)]
    IN  /\ ChangeState(acknowledge_meta, guard_values, [outcome |-> None, result |-> None])
        /\ amount_paid' = read_amount_paid(amount_paid, payments)
        /\ shop_call' = ShopCall("acknowledge_payment", RequestCart)
        /\ UNCHANGED <<transitions, in_dict, items, next_id, carts, stock, cart_obj,
                       order_items, order_amounts, customer_number, orders, now,
                       num_call, payments, pool_vars>>

NextOnce ==
    \/ get_or_create
    \/ create_from_cart
    \/ populate_from_cart
    \/ OrderPayment_create_full
    \/ Order_acknowledge_payment

SpecOnce == InitOnce /\ [][NextOnce]_vars

-----------------------------------------------------------------------------
(* Properties of the state machine field                                   *)

\* the registered sources that apply to state st: the exact source, the
\* wildcard "*", and the wildcard "+" unless its rule targets st itself
Applicable(meta, st) ==
    {src \in DOMAIN meta : \/ src = st
                           \/ src = "*"
                           \/ src = "+" /\ meta[src].target # st}

\* the rule change_state matched for its last call
MatchedRule == get_transition(transitions, fsm_call.source)

\* the last change_state call ran the business method and it raised
BusinessRaised == fsm_call.op = "change_state" /\ fsm_call.raised # None

\* C1: when the wrapped business method raises, the state field keeps its
\* pre-call value if the matched rule declares no on_error and equals on_error
\* if it declares one, and the caller receives the method's own exception.
C1_ErrorFallback ==
    BusinessRaised =>
        /\ fsm_call.exc = fsm_call.raised
        /\ state = IF MatchedRule.on_error = None THEN fsm_call.source
                   ELSE MatchedRule.on_error

C1_Witness ==
    /\ BusinessRaised
    /\ MatchedRule.on_error = "failed"
    /\ fsm_call.source # "failed"
    /\ state = "failed"
    /\ fsm_call.exc = "ValueError"

\* the last change_state call met no applicable rule, or a false guard
RefusedCase ==
    /\ fsm_call.op = "change_state"
    /\ \/ Applicable(transitions, fsm_call.source) = {}
       \/ \E condition \in MatchedRule.conditions : ~fsm_call.guards[condition]

\* C2: a change_state call with no rule for the current state, or with a guard
\* that returns false, raises TransitionNotAllowed, never invokes the business
\* method, sends no pre- or post-transition signal and leaves the state field.
C2_NotAllowed ==
    RefusedCase =>
        /\ fsm_call.exc = "TransitionNotAllowed"
        /\ ~fsm_call.invoked
        /\ fsm_call.signals = <<>>
        /\ state = fsm_call.source

C2_Witness ==
    /\ fsm_call.op = "change_state"
    /\ Applicable(transitions, fsm_call.source) # {}
    /\ \E condition \in MatchedRule.conditions : ~fsm_call.guards[condition]
    /\ fsm_call.exc = "TransitionNotAllowed"
    /\ ~fsm_call.invoked

\* C3 as stated: has_transition(s) holds iff the table has a rule with source s,
\* a "*" rule, or a "+" rule, the "+" rule matching only when the state is
\* unchanged by it (its target is s).
C3_UnchangedOnly ==
    \A st \in States :
        has_transition(transitions, st) <=>
            \/ st \in DOMAIN transitions
            \/ "*" \in DOMAIN transitions
            \/ "+" \in DOMAIN transitions /\ transitions["+"].target = st

\* C3 amended: has_transition(s) holds iff the table has a rule with source s,
\* a "*" rule, or a "+" rule whose target differs from s; a table holding only
\* a "+" rule with target T has no transition at T and one at every other state.
C3_AnyButTarget ==
    /\ \A st \in States :
            has_transition(transitions, st) <=> Applicable(transitions, st) # {}
    /\ \A T \in States :
            (DOMAIN transitions = {"+"} /\ transitions["+"].target = T) =>
                \A st \in States : has_transition(transitions, st) <=> st # T

\* the edge case exercised: only a "+" rule, queried by change_state at its target
C3_Witness ==
    /\ DOMAIN transitions = {"+"}
    /\ transitions["+"].target = "created"
    /\ fsm_call.op = "change_state"
    /\ fsm_call.source = "created"
    /\ fsm_call.exc = "TransitionNotAllowed"

\* the values change_state may assign from state st with business result r
AssignableFrom(st, r) ==
    LET rule == get_transition(transitions, st)
    IN  ({rule.target, rule.on_error} \ {None, RETURN_VALUE})
        \cup (IF rule.target = RETURN_VALUE THEN {r} \cap allowed_states ELSE {})

\* C4: once the protected state field is initialised, a direct assignment
\* raises AttributeError and leaves the value, and the value changes only in a
\* change_state call, to the rule's target, to a validated computed target or
\* to the rule's on_error.
C4_WriteProtected ==
    [][in_dict =>
        /\ fsm_call'.op = "__set__" =>
                fsm_call'.exc = "AttributeError" /\ state' = state
        /\ state' # state =>
                /\ fsm_call'.op = "change_state"
                /\ state' \in AssignableFrom(state, fsm_call'.result)]_vars

C4_Witness ==
    /\ fsm_call.op = "__set__"
    /\ fsm_call.exc = "AttributeError"
    /\ fsm_call.value # state
    /\ state = fsm_call.source


\* the last change_state call ran the business method under a rule with a
\* computed target, and the method returned
ComputedTarget ==
    /\ fsm_call.op = "change_state"
    /\ fsm_call.invoked
    /\ fsm_call.raised = None
    /\ MatchedRule.target = RETURN_VALUE

\* C16: under a rule with the target RETURN_VALUE(allowed states), a returned
\* value of the allowed set becomes the state; a value outside it makes
\* InvalidResultState reach the caller, and the state keeps its pre-call value
\* or, if the rule declares on_error, equals on_error
C16_ComputedTarget ==
    ComputedTarget =>
        IF fsm_call.result \in allowed_states
        THEN fsm_call.exc = None /\ state = fsm_call.result
        ELSE /\ fsm_call.exc = "InvalidResultState"
             /\ state = IF MatchedRule.on_error = None THEN fsm_call.source
                        ELSE MatchedRule.on_error

\* a value outside the allowed set was returned in state created under a rule
\* without on_error: InvalidResultState, and the state is still created
C16_Witness ==
    /\ ComputedTarget
    /\ fsm_call.result = "bogus"
    /\ MatchedRule.on_error = None
    /\ fsm_call.source = "created"
    /\ state = "created"
    /\ fsm_call.exc = "InvalidResultState"

-----------------------------------------------------------------------------
(* Properties of the cart and of the order's population                    *)

\* the purchasing lines (quantity > 0) and the watch-list lines of a cart
purchasing(rows, cart) == {r \in rows : r.cart = cart /\ r.quantity > 0}
watch_list(rows, cart) == {r \in rows : r.cart = cart /\ r.quantity = 0}

\* the last call was populate_from_cart on an order in status new
Populated == shop_call.op = "populate_from_cart" /\ fsm_call.source = "new"

\* C5: when populate_from_cart meets a purchasing line whose quantity exceeds
\* the product's stock, it raises the stock error, the order is still new and
\* has no order item, and every cart line and every stock level is as before
C5_AllOrNothing ==
    (/\ Populated
     /\ \E r \in purchasing(shop_call.items_before, RequestCart) :
            r.quantity > shop_call.stock_before[r.product])
    => /\ shop_call.exc = "ProductNotAvailable"
       /\ state = "new"
       /\ order_items = {}
       /\ items = shop_call.items_before
       /\ stock = shop_call.stock_before

\* C6: populate_from_cart on an order in new whose cart's purchasing lines are
\* all within stock succeeds: the order is created, each purchasing line has
\* become one order item with its product, price, line total and quantity, its
\* stock is deducted and the line is gone, and the watch-list lines are as before
C6_Populated ==
    (/\ Populated
     /\ \A r \in purchasing(shop_call.items_before, RequestCart) :
            r.quantity <= shop_call.stock_before[r.product])
    => /\ shop_call.exc = None
       /\ state = "created"
       /\ \A r \in purchasing(shop_call.items_before, RequestCart) :
            /\ r \notin items
            /\ Cardinality({o \in order_items : o.product = r.product}) = 1
            /\ [product |-> r.product, quantity |-> r.quantity,
                unit_price |-> unit_price[r.product],
                line_total |-> unit_price[r.product] * r.quantity] \in order_items
            /\ stock[r.product] = shop_call.stock_before[r.product] - r.quantity
       /\ Cardinality(order_items)
            = Cardinality(purchasing(shop_call.items_before, RequestCart))
       /\ watch_list(items, RequestCart) = watch_list(shop_call.items_before, RequestCart)

\* C7: a Cart.update returns with the dirty flag false, and a second one with
\* no mutation in between invokes no modifier hook and leaves the cart's
\* subtotal, total and extra rows as they were
C7_Idempotent ==
    shop_call.op = "Cart.update"
    => /\ shop_call.exc = None
       /\ ~cart_obj.dirty
       /\ shop_call.repeat = 2
            => /\ shop_call.hooks = 0
               /\ cart_obj.subtotal = shop_call.cart_before.subtotal
               /\ cart_obj.total = shop_call.cart_before.total
               /\ cart_obj.extra_rows = shop_call.cart_before.extra_rows

\* C8: every call that adds, changes, deletes or merges in a line of the
\* request's cart sets the dirty flag of the cart object the request holds,
\* so that cart is never clean with totals of other lines than its current ones
C8_MutationDirties ==
    /\ (/\ shop_call.op \in {"get_or_create", "CartItem.save", "CartItem.delete",
                             "merge_with"}
        /\ shop_call.cart = RequestCart
        /\ shop_call.changed)
       => shop_call.dirtied = "caller"
    /\ (cart_obj.has_totals /\ ~cart_obj.dirty)
       => cart_obj.subtotal = sum_line_total(purchasing(items, RequestCart))

\* C9: Cart.update under [DefaultCartModifier, CartIncludeTaxModifier] leaves
\* subtotal = the sum of unit price times quantity of the purchasing lines, one
\* extra row 'taxes' of 13% of the subtotal, and total = subtotal + that row;
\* for A x 2 at 10.00 and B x 1 at 5.00: 25.00, 3.25 and 28.25
C9_Totals ==
    shop_call.op = "Cart.update"
    => LET subtotal == sum_line_total(purchasing(items, RequestCart))
       IN  /\ cart_obj.has_totals
           /\ cart_obj.subtotal = subtotal
           /\ cart_obj.extra_rows
                = <<[identifier |-> "taxes", amount |-> tax_amount(subtotal)]>>
           /\ cart_obj.total = subtotal + tax_amount(subtotal)
           /\ ({[product |-> r.product, quantity |-> r.quantity] :
                    r \in purchasing(items, RequestCart)}
                 = {[product |-> "A", quantity |-> 2], [product |-> "B", quantity |-> 1]})
              => /\ cart_obj.subtotal = 2500
                 /\ cart_obj.extra_rows = <<[identifier |-> "taxes", amount |-> 325]>>
                 /\ cart_obj.total = 2825

\* C10: get_or_create with a quantity > 0 for a product with a purchasing line
\* adds to that line and creates none, a cart holds at most one purchasing line
\* per product, and get_or_create with quantity 0 neither returns nor changes
\* a purchasing line but leaves a separate watch-list line
C10_MergeRule ==
    /\ \A r1, r2 \in items :
          (r1.cart = r2.cart /\ r1.product = r2.product
             /\ r1.quantity > 0 /\ r2.quantity > 0) => r1 = r2
    /\ (shop_call.op = "get_or_create" /\ shop_call.line_before.quantity > 0)
       => IF shop_call.quantity > 0
          THEN /\ ~shop_call.created
               /\ shop_call.item = shop_call.line_before.id
               /\ [shop_call.line_before EXCEPT !.quantity = @ + shop_call.quantity]
                    \in items
          ELSE /\ shop_call.item # shop_call.line_before.id
               /\ shop_call.line_before \in items
               /\ \E w \in watch_list(items, shop_call.cart) :
                      w.product = shop_call.product /\ w.id = shop_call.item

\* C11: create_from_cart on the request's cart succeeds and then the customer
\* has a number and one more order is persisted, in status new with zero
\* totals, no item and a number; and a call that fails leaves nothing behind
C11_CreateAtomic ==
    shop_call.op = "create_from_cart"
    => /\ shop_call.exc = None
       /\ customer_number # NoNumber
       /\ \E o \in orders \ shop_call.orders_before :
            /\ orders = shop_call.orders_before \cup {o}
            /\ o.status = "new" /\ o.subtotal = 0 /\ o.total = 0 /\ o.number # NoNumber
       /\ order_items = {}
       /\ shop_call.exc # None
            => /\ customer_number = shop_call.customer_before
               /\ orders = shop_call.orders_before
               /\ items = shop_call.items_before

-----------------------------------------------------------------------------
(* Properties of the order numbers                                         *)

\* the number of decimal digits of n, and the powers of ten
RECURSIVE digits_of(_)
digits_of(n) == IF n < 10 THEN 1 ELSE 1 + digits_of(n \div 10)

RECURSIVE pow10(_)
pow10(k) == IF k = 0 THEN 1 ELSE 10 * pow10(k - 1)

\* the year and the counter an order number is written with
year_of(number) == number \div pow10(digits_of(number) - 4)
counter_of(number) == number % pow10(digits_of(number) - 4)

\* the highest counter among the numbers of rows written with year y, 0 if none
highest_counter(rows, y) ==
    LET counters == {counter_of(o.number) : o \in {r \in rows : year_of(r.number) = y}}
    IN  IF counters = {} THEN 0
        ELSE CHOOSE c \in counters : \A d \in counters : d <= c

\* the year y followed by the counter c, written with at least five digits
year_counter(y, c) == y * pow10(IF digits_of(c) < 5 THEN 5 ELSE digits_of(c)) + c

\* every order so far was numbered and saved within one calendar year
WithinOneYear(rows) == \A o \in rows : year_of(o.number) = o.created_at.year

\* C12: get_or_assign_number leaves a number that is assigned as it is, and an
\* order created within a calendar year gets the year followed by the highest
\* counter persisted for that year plus one (00001 for the first), a number
\* above every number of that year
C12_NumberOnce ==
    /\ num_call.op = "get_or_assign"
         => /\ num_call.number = num_call.number_before
            /\ orders = num_call.orders_before
    /\ (num_call.op = "create" /\ WithinOneYear(orders))
         => LET c == highest_counter(num_call.orders_before, num_call.year)
            IN  /\ num_call.exc = None
                /\ num_call.number = year_counter(num_call.year, c + 1)
                /\ c = 0 => num_call.number = num_call.year * 100000 + 1
                /\ \A o \in num_call.orders_before :
                      year_of(o.number) = num_call.year => o.number < num_call.number

\* an order was created in a year that holds the counter 99999: it is
\* numbered with the six-digit counter 100000
C12_Witness ==
    /\ num_call.op = "create"
    /\ WithinOneYear(orders)
    /\ highest_counter(num_call.orders_before, num_call.year) = 99999
    /\ \E o \in orders : o.number = num_call.number /\ counter_of(o.number) = 100000

\* C13: for every assigned order number n, also one with a counter above
\* 99999, resolve_number(get_number()) is the lookup value of n: the decimal
\* string of n, which the number field reads as n
C13_RoundTrip ==
    num_call.op = "filter"
    => /\ num_call.lookup = str(num_call.number)
       /\ get_prep_value(num_call.lookup) = num_call.number
       /\ \A i \in 1..Len(num_call.lookup) : num_call.lookup[i] # Dash

\* the number 2026-100000 was formatted and resolved
C13_Witness ==
    /\ num_call.op = "filter"
    /\ counter_of(num_call.number) > 99999
    /\ num_call.slug = <<2, 0, 2, 6, Dash, 1, 0, 0, 0, 0, 0>>
    /\ num_call.lookup = <<2, 0, 2, 6, 1, 0, 0, 0, 0, 0>>

-----------------------------------------------------------------------------
(* Properties of the payments                                              *)

\* C14: acknowledge_payment in any status sets payment_confirmed exactly when
\* the payments recorded at the time of the call sum to at least the order
\* total, and otherwise raises TransitionNotAllowed and leaves the status,
\* also after a failed attempt and a further payment
C14_Acknowledge ==
    shop_call.op = "acknowledge_payment"
    => IF payments >= order_amounts.total
       THEN fsm_call.exc = None /\ state = "payment_confirmed"
       ELSE fsm_call.exc = "TransitionNotAllowed" /\ state = fsm_call.source

-----------------------------------------------------------------------------
(* Properties of the permissions                                           *)

\* C15: when the matched rule declares a permission the acting principal does
\* not have, executing the transition raises TransitionNotAllowed, the
\* business method is not invoked and the state field is unchanged
C15_PermissionEnforced ==
    (/\ shop_call.op = "change_state"
     /\ has_transition(transitions, fsm_call.source)
     /\ get_transition(transitions, fsm_call.source).permission # None
     /\ ~shop_call.has_perm)
    => /\ fsm_call.exc = "TransitionNotAllowed"
       /\ ~fsm_call.invoked
       /\ state = fsm_call.source

-----------------------------------------------------------------------------
(* Properties of the modifier pools                                        *)

\* C17: every call of get_all_modifiers for a store whose modifier list holds
\* an identifier twice, or a modifier without one, fails with the
\* configuration error, the first time and every later time; a pipeline that
\* get_all_modifiers returns, fresh or cached, never holds an identifier twice.
C17_CollisionsAlwaysFatal ==
    pool_call.op \in {"get_all_modifiers", "support.get_all_modifiers"} =>
        /\ ~unique_identifiers(store_config) => pool_call.exc = "ImproperlyConfigured"
        /\ pool_call.exc = None => unique_identifiers(pool_call.modifiers)

-----------------------------------------------------------------------------
(* Properties of the pre-phase quantity check                              *)

\* what is left of the product's stock, capped at the purchase limit, once
\* the quantities the carts held before the call are taken off
live_availability ==
    LET product == shop_call.line_before.product
        held == {r \in shop_call.items_before : r.product = product}
        capped == IF shop_call.stock_before[product] > MAX_PURCHASE_QUANTITY
                  THEN MAX_PURCHASE_QUANTITY ELSE shop_call.stock_before[product]
        RECURSIVE total(_)
        total(rows) == IF rows = {} THEN 0
                       ELSE LET r == CHOOSE x \in rows : TRUE
                            IN  r.quantity + total(rows \ {r})
    IN  capped - total(held)

\* the stored line the call was given, as it is after the call
line_after == CHOOSE r \in items : r.id = shop_call.item

\* C18: a line whose quantity exceeds the live availability is, without
\* raise_exception, set to the availability and stored with one advisory
\* message, and with raise_exception refused with the stock error and left as
\* it was; a line within the availability is untouched, with no advisory.
C18_PrePhaseClamp ==
    shop_call.op = "pre_process_cart_item" =>
        IF shop_call.line_before.quantity > live_availability
        THEN IF shop_call.raise_exception
             THEN /\ shop_call.exc = "ProductNotAvailable"
                  /\ items = shop_call.items_before
                  /\ shop_call.quantity = shop_call.line_before.quantity
                  /\ shop_call.messages = 0
             ELSE /\ shop_call.exc = None
                  /\ shop_call.quantity = live_availability
                  /\ line_after.quantity = live_availability
                  /\ shop_call.messages = 1
        ELSE /\ shop_call.exc = None
             /\ items = shop_call.items_before
             /\ shop_call.quantity = shop_call.line_before.quantity
             /\ shop_call.messages = 0

-----------------------------------------------------------------------------
(* Properties of the order's transition targets                            *)

\* the sources of a merge: each configured workflow and the Order itself
merged_sources == order_class.workflows \o <<Order_TRANSITION_TARGETS>>

\* two sources declare one target name
collision ==
    \E i, j \in DOMAIN merged_sources :
        i # j /\ merged_sources[i] \cap merged_sources[j] # {}

\* C19: merging the workflows into the Order's transition targets fails with
\* the configuration error exactly when two sources, workflows or the Order
\* itself, declare one target name; without a collision the merged table is
\* the union of all declared targets.
C19_MergeTargets ==
    (order_class.op = "Order.__new__" /\ order_class.configured) =>
        /\ order_class.exc = "ImproperlyConfigured" <=> collision
        /\ ~collision =>
               /\ order_class.exc = None
               /\ order_class.targets = UNION {merged_sources[i] : i \in DOMAIN merged_sources}

-----------------------------------------------------------------------------
(* Properties of the merge of two carts                                    *)

\* the quantity of a product that the lines of a cart hold among rows
held(rows, cart, product) ==
    LET lines == {r \in rows : r.cart = cart /\ r.product = product}
        RECURSIVE total(_)
        total(rs) == IF rs = {} THEN 0
                     ELSE LET r == CHOOSE x \in rs : TRUE IN r.quantity + total(rs \ {r})
    IN  total(lines)

\* the product has a line in the cart among rows
in_cart(rows, cart, product) == \E r \in rows : r.cart = cart /\ r.product = product

\* C20: after merge_with(other) completes, this cart holds of every product
\* the sum of what the two carts held before, a product that was in both
\* carts is one line, and the other cart and its lines are gone.
C20_MergeConserves ==
    (shop_call.op = "merge_with" /\ shop_call.exc = None) =>
        LET before == shop_call.items_before
            this == shop_call.cart
            other == shop_call.other_cart
        IN  /\ \A p \in Products :
                  held(items, this, p) = held(before, this, p) + held(before, other, p)
            /\ \A p \in Products :
                  (in_cart(before, this, p) /\ in_cart(before, other, p)) =>
                      Cardinality({r \in items : r.cart = this /\ r.product = p}) = 1
            /\ other \notin carts
            /\ \A r \in items : r.cart # other

\* a merge of two carts that each held one piece of one product
C20_Witness ==
    /\ shop_call.op = "merge_with"
    /\ shop_call.exc = None
    /\ \E p \in Products :
          /\ held(shop_call.items_before, shop_call.cart, p) = 1
          /\ held(shop_call.items_before, shop_call.other_cart, p) = 1
          /\ held(items, shop_call.cart, p) = 2
          /\ Cardinality({r \in items : r.product = p}) = 1

-----------------------------------------------------------------------------
(* Properties of the transition signals                                    *)

\* C21: a change_state that passes the rule and the guards sends one
\* pre_transition (source, target) before the method runs and one
\* post_transition after it: on success once the new state is assigned, on
\* failure always, with or without on_error, carrying the exception.
C21_SignalsAlways ==
    (fsm_call.op = "change_state" /\ fsm_call.invoked) =>
        /\ Len(fsm_call.signals) = 2
        /\ fsm_call.signals[1].signal = "pre_transition"
        /\ fsm_call.signals[1].source = fsm_call.source
        /\ fsm_call.signals[1].exception = None
        /\ fsm_call.signals[2].signal = "post_transition"
        /\ fsm_call.signals[2].source = fsm_call.source
        /\ fsm_call.signals[2].exception = fsm_call.exc
        /\ (fsm_call.exc = None /\ fsm_call.signals[2].target # None)
               => fsm_call.signals[2].target = state

-----------------------------------------------------------------------------
(* Properties of the order of the modifier hooks                           *)

\* the positions of the trace at which a hook of a modifier ran
at(trace, hook, modifier) ==
    {n \in DOMAIN trace : trace[n].hook = hook /\ trace[n].modifier = modifier}

\* the positions at which a hook ran, of any modifier
all_at(trace, hook) == {n \in DOMAIN trace : trace[n].hook = hook}

before(P, Q) == \A n \in P, m \in Q : n < m

\* C22: a Cart.update on a dirty cart runs, for each modifier in pipeline
\* order, pre_process_cart then pre_process_cart_item of every item, all before
\* any process_cart_item; then, for each modifier in pipeline order,
\* post_process_cart_item of every item then its process_cart; at last
\* post_process_cart once per modifier in reverse pipeline order.
C22_HookOrder ==
    (shop_call.op = "Cart.update" /\ shop_call.cart_before.dirty) =>
        LET t == shop_call.trace
            mods == store_cart_modifiers
            active == {r.id : r \in {x \in shop_call.items_before :
                                        x.cart = RequestCart /\ x.quantity > 0}}
            pre_hooks == all_at(t, "pre_process_cart") \cup all_at(t, "pre_process_cart_item")
            forward == all_at(t, "post_process_cart_item") \cup all_at(t, "process_cart")
        IN  /\ \A j \in DOMAIN mods :
                  /\ Cardinality(at(t, "pre_process_cart", mods[j])) = 1
                  /\ Cardinality(at(t, "process_cart", mods[j])) = 1
                  /\ Cardinality(at(t, "post_process_cart", mods[j])) = 1
                  /\ \A h \in {"pre_process_cart_item", "process_cart_item",
                               "post_process_cart_item"} :
                        {t[n].item : n \in at(t, h, mods[j])} = active
                        /\ Cardinality(at(t, h, mods[j])) = Cardinality(active)
                  /\ before(at(t, "pre_process_cart", mods[j]),
                            at(t, "pre_process_cart_item", mods[j]))
                  /\ before(at(t, "post_process_cart_item", mods[j]),
                            at(t, "process_cart", mods[j]))
            /\ \A j1, j2 \in DOMAIN mods : j1 < j2 =>
                  /\ before(at(t, "pre_process_cart_item", mods[j1]),
                            at(t, "pre_process_cart", mods[j2]))
                  /\ before(at(t, "process_cart", mods[j1]),
                            at(t, "post_process_cart_item", mods[j2]))
                  /\ before(at(t, "post_process_cart", mods[j2]),
                            at(t, "post_process_cart", mods[j1]))
            /\ before(pre_hooks, all_at(t, "reset"))
            /\ before(all_at(t, "reset"), all_at(t, "process_cart_item"))
            /\ before(all_at(t, "process_cart_item"), forward)
            /\ before(forward, all_at(t, "post_process_cart"))

-----------------------------------------------------------------------------
(* Properties of the totals an order takes from its cart                   *)

\* the sum of the line totals of a set of order items
RECURSIVE order_lines_total(_)
order_lines_total(lines) ==
    IF lines = {} THEN 0
    ELSE LET o == CHOOSE x \in lines : TRUE
         IN  o.line_total + order_lines_total(lines \ {o})

\* C24: populate_from_cart on an order in new, given a cart that was changed
\* since its last update, recomputes the cart during the call and returns with
\* the order's subtotal equal to the sum of the line totals of the order items
\* it created.
C24_FreshTotals ==
    (Populated /\ shop_call.cart_before.dirty) =>
        /\ shop_call.exc = None
        /\ order_amounts.subtotal = order_lines_total(order_items)
        /\ order_amounts.subtotal
             = sum_line_total(purchasing(shop_call.items_before, RequestCart))

-----------------------------------------------------------------------------
(* Properties of the rule resolution                                       *)

\* the rank of a key of the rule table for a state: exact, any, unchanged
rank(key, s) == IF key = s THEN 1 ELSE IF key = "*" THEN 2 ELSE 3

\* the keys of the table that can stand for the state s
candidates(s) == DOMAIN transitions \cap {s, "*", "+"}

\* the key of the rule the precedence picks for s
resolved_key(s) ==
    CHOOSE k \in candidates(s) : \A other \in candidates(s) : rank(k, s) <= rank(other, s)

\* C23: the rule used for the current state s is the one with source s, else
\* the '*' rule, else the '+' rule, else none; change_state announces and
\* assigns the target of that rule, runs only under the guards of that rule
\* and falls back to the on_error of that rule, and of no other.
C23_Precedence ==
    fsm_call.op = "change_state" =>
        LET s == fsm_call.source
        IN  IF candidates(s) = {}
            THEN ~fsm_call.invoked /\ fsm_call.exc = "TransitionNotAllowed"
            ELSE LET rule == transitions[resolved_key(s)]
                     guarded == \A g \in rule.conditions : fsm_call.guards[g]
                 IN  /\ fsm_call.invoked => guarded
                     /\ ~guarded => fsm_call.exc = "TransitionNotAllowed" /\ state = s
                     /\ fsm_call.invoked =>
                          /\ fsm_call.signals[1].target = rule.target
                          /\ (fsm_call.exc = None /\ rule.target \in States)
                                => state = rule.target
                          /\ (fsm_call.exc = None /\ rule.target = None) => state = s
                          /\ fsm_call.exc # None
                                => state = IF rule.on_error # None THEN rule.on_error
                                           ELSE s

\* a call in state new under a table with an 'any' rule to created and an
\* 'unchanged' rule without target: the 'any' rule is the one applied
C23_Witness ==
    /\ fsm_call.op = "change_state"
    /\ fsm_call.invoked
    /\ fsm_call.source = "new"
    /\ DOMAIN transitions = {"*", "+"}
    /\ transitions["*"].target = "created"
    /\ transitions["+"].target = None
    /\ fsm_call.exc = None
    /\ state = "created"

-----------------------------------------------------------------------------
(* Properties of the single population of an order                         *)

\* C25: populate_from_cart on an order that is not in status new raises
\* TransitionNotAllowed, creates no order item, deducts no stock, removes no
\* cart line and leaves the order's totals and status as they were, whatever
\* creations, populations and acknowledgements came before.
C25_PopulateOnce ==
    (shop_call.op = "populate_from_cart" /\ fsm_call.source # "new") =>
        /\ shop_call.exc = "TransitionNotAllowed"
        /\ fsm_call.exc = "TransitionNotAllowed"
        /\ ~fsm_call.invoked
        /\ order_items = shop_call.order_items_before
        /\ stock = shop_call.stock_before
        /\ items = shop_call.items_before
        /\ order_amounts = shop_call.amounts_before
        /\ state = fsm_call.source

\* populate_from_cart refused on an acknowledged order whose customer's cart
\* holds a line that the stock covers
C25_Witness ==
    /\ shop_call.op = "populate_from_cart"
    /\ fsm_call.source = "payment_confirmed"
    /\ shop_call.exc = "TransitionNotAllowed"
    /\ \E r \in items : r.cart = RequestCart /\ r.quantity > 0
                        /\ r.quantity <= stock[r.product]
    /\ state = "payment_confirmed"

-----------------------------------------------------------------------------
(* Properties of the invalidation of the pipeline cache                    *)

\* a resolution for the store, made while no save of the store is under way,
\* returns the modifiers of the store's current list
ResolvesCurrentList ==
    (pool_call.op = "get_all_modifiers" /\ pool_call.exc = None /\ ~store_saving.active)
        => pool_call.modifiers = store_config

\* the notification of a store's change drops that store's entry and leaves
\* the entry of the other store alone
DropsOwnEntryOnly ==
    (~store_saving.active /\ store_saving'.active)
        => (~pool_cache'.primed /\ other_cache' = other_cache)

\* C26: a store-change notification removes the store's cached pipeline and
\* no other store's, and every resolution for the store that starts after an
\* edit of its modifier list has completed returns modifiers of the edited
\* list, however the edit and the resolutions interleave.
C26_Invalidation == [][DropsOwnEntryOnly]_vars /\ []ResolvesCurrentList

-----------------------------------------------------------------------------
(* Properties of the cart's subtotal after an update                       *)

\* C27: every Cart.update returns, and when it does the cart's subtotal is the
\* sum of the line totals of the lines the cart holds then with quantity > 0,
\* whatever additions, quantity changes, removals and updates came before on
\* the same cart object.
C27_SubtotalCurrent ==
    shop_call.op = "Cart.update" =>
        /\ shop_call.exc = None
        /\ cart_obj.has_totals
        /\ ~cart_obj.dirty
        /\ cart_obj.subtotal
             = order_lines_total({[line_total |-> unit_price[r.product] * r.quantity,
                                   id |-> r.id] : r \in purchasing(items, RequestCart)})

-----------------------------------------------------------------------------
(* Properties of concurrent order creation                                 *)

\* C28: no two persisted orders carry one number, also when two requests
\* both read the highest number before either inserts its order: a number is
\* persisted by at most one of them.
C28_UniqueNumbers ==
    /\ \A i, j \in DOMAIN drafts.persisted :
          drafts.persisted[i] = drafts.persisted[j] => i = j
    /\ \A p, q \in Procs :
          (p # q /\ drafts.pc[p] = "saved" /\ drafts.pc[q] = "saved")
             => drafts.number[p] # drafts.number[q]

\* both requests read the same highest number; the order of one is persisted
\* and the insert of the other is refused
C28_Witness ==
    \E p, q \in Procs :
        /\ p # q
        /\ drafts.number[p] = drafts.number[q]
        /\ drafts.number[p] # NoNumber
        /\ drafts.pc[p] = "saved"
        /\ drafts.pc[q] = "failed"
        /\ num_call.exc = "IntegrityError"

-----------------------------------------------------------------------------
(* Properties of the stock                                                 *)

\* the quantity of the product that the order items created so far hold
RECURSIVE quantity_sold(_)
quantity_sold(lines) ==
    IF lines = {} THEN 0
    ELSE LET o == CHOOSE x \in lines : TRUE
         IN  o.quantity + quantity_sold(lines \ {o})

\* C29: the stock of a product is never below 0 and is its initial stock less
\* the quantities of all order items created for it, so no more is sold than
\* there was, for any sequence of conversions and any interleaving of two
\* conversions of carts holding the product.
C29_NoOverselling ==
    /\ stock[Sold] >= 0
    /\ stock[Sold] = conversions.initial - quantity_sold(order_items)
    /\ quantity_sold(order_items) <= conversions.initial

-----------------------------------------------------------------------------
(* Properties of the sign of a cart line's quantity                        *)

\* C30: no cart line has a negative quantity, and the clamp of the pre-phase
\* without raise_exception never gives a line a negative quantity, also when
\* the availability of its product is below zero.
C30_NeverNegative ==
    /\ \A r \in items : r.quantity >= 0
    /\ (shop_call.op = "pre_process_cart_item" /\ ~shop_call.raise_exception)
           => /\ shop_call.quantity >= 0
              /\ shop_call.exc = None

====
